---------------------------- MODULE Spec2Model ----------------------------
(***************************************************************************)
(* A model of the journald binding (nyantec/rust-journald): the Reader of  *)
(* src/src/reader/mod.rs and the blocking iterator of                      *)
(* src/src/reader/iter.rs, driven against a model of the journal store     *)
(* whose primitives (the sd_journal calls) the binding only consumes, and   *)
(* ffi_result and open_systemd of src/src/lib.rs.                          *)
(*                                                                         *)
(* Text is modelled as a sequence of tokens.  A token is either one of the *)
(* separator bytes "=" and NUL, the invalid byte "xFF", or a run of other  *)
(* bytes written as one string ("MESSAGE", "m1").                          *)
(***************************************************************************)
EXTENDS Integers, Sequences, FiniteSets, TLC

(***************************************************************************)
(* Bounds of the model.                                                    *)
(***************************************************************************)
MaxJournal == 3
MaxFaults == 1
MaxOpens == 2
MaxStatus == 100
MaxCallers == 3
MaxLoads == 2

(***************************************************************************)
(* Text helpers.                                                           *)
(***************************************************************************)
EQ == "="
NUL == "NUL"

\* Index of the first occurrence of token c in s, 0 when there is none.
RECURSIVE IndexFrom(_, _, _)
IndexFrom(s, c, i) ==
    IF i > Len(s) THEN 0
    ELSE IF s[i] = c THEN i
    ELSE IndexFrom(s, c, i + 1)

IndexOf(s, c) == IndexFrom(s, c, 1)

Contains(s, c) == IndexOf(s, c) # 0

\* String::from_utf8_lossy: an invalid byte becomes the replacement character.
from_utf8_lossy(b) ==
    [i \in 1..Len(b) |-> IF b[i] = "xFF" THEN "uFFFD" ELSE b[i]]

\* The name taken up to the last '=' of the field.
RECURSIVE rsplit_name(_)
rsplit_name(field) ==
    IF Contains(SubSeq(field, IndexOf(field, EQ) + 1, Len(field)), EQ)
    THEN SubSeq(field, 1, IndexOf(field, EQ)) \o
         rsplit_name(SubSeq(field, IndexOf(field, EQ) + 1, Len(field)))
    ELSE IF Contains(field, EQ) THEN SubSeq(field, 1, IndexOf(field, EQ) - 1) ELSE field

\* field.splitn(2, '='): the first piece, up to the first '='.
splitn_name(field) ==
    IF Contains(field, EQ) THEN SubSeq(field, 1, IndexOf(field, EQ) - 1) ELSE field

\* The value taken after the last '=' of the field.
RECURSIVE rsplit_value(_)
rsplit_value(field) ==
    IF ~Contains(field, EQ) THEN [some |-> FALSE, val |-> <<>>]
    ELSE IF Contains(SubSeq(field, IndexOf(field, EQ) + 1, Len(field)), EQ)
    THEN rsplit_value(SubSeq(field, IndexOf(field, EQ) + 1, Len(field)))
    ELSE [some |-> TRUE, val |-> SubSeq(field, IndexOf(field, EQ) + 1, Len(field))]

\* field.splitn(2, '='): the second piece, everything after the first '=';
\* None when the field holds no '='.
splitn_value(field) ==
    IF Contains(field, EQ)
    THEN [some |-> TRUE, val |-> SubSeq(field, IndexOf(field, EQ) + 1, Len(field))]
    ELSE [some |-> FALSE, val |-> <<>>]

\* u64::to_string: the decimal digits.
Digit(d) == <<"0", "1", "2", "3", "4", "5", "6", "7", "8", "9">>[d + 1]

RECURSIVE to_string(_)
to_string(n) ==
    IF n < 10 THEN <<Digit(n)>> ELSE to_string(n \div 10) \o <<Digit(n % 10)>>

\* BTreeMap::insert: the new value replaces an older one under the same key.
insert(m, k, v) == (k :> v) @@ m

EmptyMap == [x \in {} |-> <<>>]

(***************************************************************************)
(* Errors and results.                                                     *)
(***************************************************************************)
EINVAL == 22
EOVERFLOW == 75
EAGAIN == 11
ENOSYS == 38
ENOTRECOVERABLE == 131

NoErr == [kind |-> "None", code |-> 0]
OsError(code) == [kind |-> "Os", code |-> code]
\* CString::new on text with an embedded NUL: io::Error of kind InvalidInput.
NulError == [kind |-> "InvalidInput", code |-> 0]

\* The negative statuses an injected primitive failure reports.
FaultStatuses == {-5}

\* The least and the greatest c_int.
I32_MIN == -2147483647 - 1
I32_MAX == 2147483647

\* ffi_result: a negative status is the error -ret, any other status is
\* Ok(ret).  -ret is computed in c_int: built without overflow checks, the
\* negation of the least c_int wraps to itself.
ffi_result(r) ==
    IF r < 0
    THEN [ok |-> FALSE, val |-> 0, err |-> OsError(IF r = I32_MIN THEN I32_MIN ELSE -r)]
    ELSE [ok |-> TRUE, val |-> r, err |-> NoErr]

\* What a call of ffi_result ends in: built with overflow checks, the
\* negation of the least c_int panics.
ffi_result_outcomes(r) ==
    {[tag |-> IF ffi_result(r).ok THEN "Ok" ELSE "Err", val |-> ffi_result(r).val,
      err |-> ffi_result(r).err]}
    \cup (IF r = I32_MIN THEN {[tag |-> "Panic", val |-> 0, err |-> NoErr]} ELSE {})

\* CString::new(s): fails when s holds a NUL.
CStringNew(s) ==
    IF Contains(s, NUL) THEN [ok |-> FALSE, err |-> NulError]
    ELSE [ok |-> TRUE, err |-> NoErr]


(***************************************************************************)
(* Unsigned integers wider than 31 bits are kept as sequences of 16-bit     *)
(* limbs, least significant first: a u64 has 4 limbs, a u128 has 8.        *)
(***************************************************************************)
LimbMax == 65536 - 1

U64_MAX == <<LimbMax, LimbMax, LimbMax, LimbMax>>

\* Duration::as_micros() of the durations a caller passes, as u128 values:
\* 200 ms, 1 s, u64::MAX microseconds and 2^64 microseconds.
Durations ==
    { <<3392, 3, 0, 0, 0, 0, 0, 0>>,
      <<16960, 15, 0, 0, 0, 0, 0, 0>>,
      <<LimbMax, LimbMax, LimbMax, LimbMax, 0, 0, 0, 0>>,
      <<0, 0, 0, 0, 1, 0, 0, 0>> }

\* micros > u64::MAX as u128
ExceedsU64(micros) == \E i \in 5..8 : micros[i] # 0

\* duration_to_usec without the range check: the cast keeps the low 64 bits.
duration_to_usec_truncating(micros) ==
    [ok |-> TRUE, val |-> SubSeq(micros, 1, 4), err |-> NoErr]

\* duration_to_usec: EOVERFLOW above u64::MAX, else the value as u64.
duration_to_usec(micros) ==
    IF ExceedsU64(micros)
    THEN [ok |-> FALSE, val |-> <<0, 0, 0, 0>>, err |-> OsError(EOVERFLOW)]
    ELSE [ok |-> TRUE, val |-> SubSeq(micros, 1, 4), err |-> NoErr]

(***************************************************************************)
(* The journal store.  A record is the list of its raw data items          *)
(* ("NAME=value") with the timestamps the store assigned at append time.   *)
(***************************************************************************)
Item(name, value) == <<name, EQ>> \o value

\* The field every entry of the tests carries.
FILTER_FIELD == "RUST_JOURNALD_TEST"

\* The value of that field: a run of a writer draws it once
\* (format!("test_reverse_walk_{}", rand::random::<u64>())) and puts it into
\* every entry it submits.
UniqueId(run) == <<"test_reverse_walk_">> \o to_string(run)

\* The runs of writers that submit through the Writer.
Runs == {1, 2}

messages_expected ==
    << <<"rust-systemd test 1">>, <<"rust-systemd test 2">>, <<"rust-systemd test 3">> >>

\* The records of the test's writer, in the order it submits them: the
\* message and the filter field with the run's value, nothing else.
Script ==
    [i \in 1..Len(messages_expected) |->
        << Item("MESSAGE", messages_expected[i]), Item(FILTER_FIELD, UniqueId(1)) >>]

\* Records of several other writers in the order they arrive: two values of
\* one field, a second field, a message that holds '='.
Mixed ==
    << << Item("MESSAGE", <<"m1">>), Item("F", <<"a">>) >>,
       << Item("MESSAGE", <<"m", EQ, "2">>), Item("F", <<"b">>) >>,
       << Item("MESSAGE", <<"m3">>), Item("F", <<"a">>), Item("G", <<"x">>) >> >>

\* The records other writers submit.
Pool == {Mixed[i] : i \in 1..Len(Mixed)}

\* Records of other origin (imported or relayed journal files): data items
\* that carry the names of the fields the Reader synthesizes, a field name
\* that occurs twice, values with several '=', bytes that are not UTF-8 and
\* an item with no '=' at all.
ForeignPool ==
    { << Item("__REALTIME_TIMESTAMP", <<"9", "9", "9">>), Item("MESSAGE", <<"m1">>),
         Item("__CURSOR", <<"bogus">>) >>,
      << Item("F", <<"a", EQ, EQ, "b">>), Item("__MONOTONIC_TIMESTAMP", <<"7">>),
         Item("F", <<"c">>) >>,
      << <<"N", "xFF", EQ, "v", "xFF", EQ>>, Item("MESSAGE", <<EQ>>) >>,
      << Item("MESSAGE", <<"m1">>), <<"abc">> >> }

\* The records that may become record number n: the next one of the test's
\* script, or the next one of the other writers' records.
Submitted(script, n) ==
    IF script = "test" THEN {Script[((n - 1) % Len(Script)) + 1]}
    ELSE {Mixed[((n - 1) % Len(Mixed)) + 1]}

Range(f) == {f[x] : x \in DOMAIN f}

Min(S) == CHOOSE x \in S : \A y \in S : x <= y
Max(S) == CHOOSE x \in S : \A y \in S : x >= y

\* The store's clocks at the append of record number i.
RealtimeAt(i) == 10 + i
MonotonicAt(i) == i

\* The cursor token the store assigns to record number i.
CursorOf(i) == <<"i", EQ>> \o to_string(i)

\* A record passes the registered matches when, for every field name that
\* occurs in a match, it holds one of the matches registered for that name.
Matches(rec, ms) ==
    \A m \in ms :
        \E m2 \in ms : /\ splitn_name(m2) = splitn_name(m)
                       /\ m2 \in Range(rec.data)

MatchIdx(jr, ms) == {i \in 1..Len(jr) : Matches(jr[i], ms)}

\* Positions: before the first record, after the last one, on record i, or
\* sought to record i (not yet read).
LocHead == [t |-> "head", i |-> 0]
LocTail == [t |-> "tail", i |-> 0]
At(i) == [t |-> "at", i |-> i]
Sought(i) == [t |-> "seek", i |-> i]

\* sd_journal_next: 1 and the new position, or 0 when nothing follows.
sd_journal_next(jr, ms, l) ==
    LET c == {i \in MatchIdx(jr, ms) :
                CASE l.t = "head" -> TRUE
                  [] l.t = "tail" -> FALSE
                  [] l.t = "at" -> i > l.i
                  [] OTHER -> i >= l.i}
    IN IF c = {} THEN [status |-> 0, loc |-> l]
       ELSE [status |-> 1, loc |-> At(Min(c))]

\* sd_journal_previous: 1 and the new position, or 0 when nothing precedes.
sd_journal_previous(jr, ms, l) ==
    LET c == {i \in MatchIdx(jr, ms) :
                CASE l.t = "head" -> FALSE
                  [] l.t = "tail" -> TRUE
                  [] l.t = "at" -> i < l.i
                  [] OTHER -> i <= l.i}
    IN IF c = {} THEN [status |-> 0, loc |-> l]
       ELSE [status |-> 1, loc |-> At(Max(c))]

\* sd_journal_seek_cursor: the record the token names, EINVAL for any other text.
sd_journal_seek_cursor(jr, l, tok) ==
    IF \E i \in 1..Len(jr) : CursorOf(i) = tok
    THEN [status |-> 0, loc |-> Sought(CHOOSE i \in 1..Len(jr) : CursorOf(i) = tok)]
    ELSE [status |-> -EINVAL, loc |-> l]

\* The field names the store accepts in a match: A-Z, 0-9 and '_' only.
ValidNames == {"MESSAGE", "F", "G", FILTER_FIELD}

\* match_is_valid of the store: a valid field name, then '='.
match_is_valid(data) ==
    /\ Len(data) >= 2
    /\ data[2] = EQ
    /\ data[1] \in ValidNames

\* sd_journal_add_match: registers the match, EINVAL when it is malformed.
sd_journal_add_match(ms, data) ==
    IF match_is_valid(data) THEN [status |-> 0, matches |-> ms \cup {data}]
    ELSE [status |-> -EINVAL, matches |-> ms]

\* sd_journal_wait: 2 after an invalidation, 1 after an append, 0 when the
\* timeout passed with neither.
sd_journal_wait(evA, evI) ==
    IF evI THEN 2 ELSE IF evA THEN 1 ELSE 0

(***************************************************************************)
(* Injected primitive failures.  A fault names the primitive call of one   *)
(* Reader operation that reports a negative status st; for the field       *)
(* enumeration, k is the number of the failing call.                       *)
(***************************************************************************)
NoFault == [at |-> "none", k |-> 0, st |-> 0]

MaxItems == Max({Len(d) : d \in Pool})

Faults(points) ==
    {[at |-> a, k |-> 0, st |-> s] : a \in points \ {"enumerate"}, s \in FaultStatuses}
    \cup (IF "enumerate" \in points
          THEN {[at |-> "enumerate", k |-> k, st |-> s] :
                    k \in 1..(MaxItems + 1), s \in FaultStatuses}
          ELSE {})

(***************************************************************************)
(* JournalReader::current_entry                                            *)
(***************************************************************************)
\* The while loop over sd_journal_enumerate_data: k is the number of the
\* next call.  The loop ends on the first status that is not positive; the
\* status is not passed through ffi_result.  The value of an item is
\* name_value.next().unwrap(): on an item with no '=' the unwrap panics.
\* The one element of a set of one element.
Only(S) == CHOOSE x \in S : TRUE

RECURSIVE enumerate_loop(_, _, _, _)
enumerate_loop(rec, k, f, fields) ==
    LET st == IF f.at = "enumerate" /\ f.k = k THEN f.st
              ELSE IF k <= Len(rec.data) THEN 1 ELSE 0
        field == from_utf8_lossy(rec.data[k])
    IN IF st > 0
       THEN Only({IF value.some
                  THEN enumerate_loop(rec, k + 1, f,
                                      insert(fields, splitn_name(field), value.val))
                  ELSE [fields |-> fields, ncalls |-> k, status |-> st,
                        panic |-> TRUE] :
                  value \in {splitn_value(field)}})
       ELSE [fields |-> fields, ncalls |-> k, status |-> st, panic |-> FALSE]

EnumCalls(n) == [x \in 1..n |-> "sd_journal_enumerate_data"]

ErrOut(err, calls, hit) ==
    [tag |-> "Err", some |-> FALSE, entry |-> EmptyMap, err |-> err,
     calls |-> calls, hit |-> hit]

\* The call panicked after the primitives of calls: nothing is returned.
PanicOut(calls) ==
    [tag |-> "Panic", some |-> FALSE, entry |-> EmptyMap, err |-> NoErr,
     calls |-> calls, hit |-> FALSE]

\* current_entry with the three dedicated fields inserted before the
\* enumerated ones.
current_entry_enumerated_last(rec, i, f) ==
    LET fields3 == insert(insert(insert(EmptyMap,
                       <<"__REALTIME_TIMESTAMP">>, to_string(rec.rt)),
                       <<"__MONOTONIC_TIMESTAMP">>, to_string(rec.mono)),
                       <<"__CURSOR">>, from_utf8_lossy(CursorOf(i)))
        en == enumerate_loop(rec, 1, f, fields3)
    IN IF en.panic
       THEN PanicOut(<<"sd_journal_restart_data">> \o EnumCalls(en.ncalls))
       ELSE [tag |-> "Ok", some |-> TRUE, entry |-> en.fields, err |-> NoErr,
             calls |-> <<"sd_journal_restart_data">> \o EnumCalls(en.ncalls)
                       \o <<"sd_journal_get_realtime_usec",
                            "sd_journal_get_monotonic_usec", "sd_journal_get_cursor">>,
             hit |-> en.status < 0]

\* rec is the record at the cursor position, number i of the journal.
current_entry(rec, i, f) ==
  Only({
    LET c0 == <<"sd_journal_restart_data">> \o EnumCalls(en.ncalls)
        hit0 == en.status < 0
        rt == ffi_result(IF f.at = "realtime" THEN f.st ELSE 0)
        c1 == c0 \o <<"sd_journal_get_realtime_usec">>
        fields1 == insert(en.fields, <<"__REALTIME_TIMESTAMP">>, to_string(rec.rt))
        mo == ffi_result(IF f.at = "monotonic" THEN f.st ELSE 0)
        c2 == c1 \o <<"sd_journal_get_monotonic_usec">>
        fields2 == insert(fields1, <<"__MONOTONIC_TIMESTAMP">>, to_string(rec.mono))
        cu == ffi_result(IF f.at = "cursor" THEN f.st ELSE 0)
        c3 == c2 \o <<"sd_journal_get_cursor">>
        fields3 == insert(fields2, <<"__CURSOR">>, from_utf8_lossy(CursorOf(i)))
    IN IF en.panic THEN PanicOut(c0)
       ELSE IF ~rt.ok THEN ErrOut(rt.err, c1, TRUE)
       ELSE IF ~mo.ok THEN ErrOut(mo.err, c2, TRUE)
       ELSE IF ~cu.ok THEN ErrOut(cu.err, c3, TRUE)
       ELSE [tag |-> "Ok", some |-> TRUE, entry |-> fields3, err |-> NoErr,
             calls |-> c3, hit |-> hit0] :
    en \in {enumerate_loop(rec, 1, f, EmptyMap)}})

\* The shared part with a status of 0 taken for a failure.
read_after_end_fails(jr, adv, prim, f) ==
    LET r == ffi_result(IF f.at = "advance" THEN f.st ELSE adv.status)
        l2 == IF f.at = "advance" THEN adv.from ELSE adv.loc
    IN IF ~r.ok \/ r.val = 0
       THEN ErrOut(r.err, <<prim>>, ~r.ok) @@ [loc |-> l2, rec |-> 0]
       ELSE LET ce == current_entry(jr[l2.i], l2.i, f)
            IN [ce EXCEPT !.calls = <<prim>> \o @] @@ [loc |-> l2, rec |-> l2.i]

\* The part next_entry and previous_entry share: adv is what the advance
\* primitive answered.
read_after(jr, adv, prim, f) ==
  Only({
    LET r == ffi_result(IF f.at = "advance" THEN f.st ELSE a.status)
        l2 == IF f.at = "advance" THEN a.from ELSE a.loc
    IN IF ~r.ok
       THEN ErrOut(r.err, <<prim>>, TRUE) @@ [loc |-> l2, rec |-> 0]
       ELSE IF r.val = 0
       THEN [tag |-> "Ok", some |-> FALSE, entry |-> EmptyMap, err |-> NoErr,
             calls |-> <<prim>>, hit |-> FALSE, loc |-> l2, rec |-> 0]
       ELSE Only({[ce EXCEPT !.calls = <<prim>> \o @] @@ [loc |-> l2, rec |-> l2.i] :
                  ce \in {current_entry(jr[l2.i], l2.i, f)}}) :
    a \in {adv}})

\* JournalReader::next_entry
next_entry(jr, ms, l, f) ==
    read_after(jr, sd_journal_next(jr, ms, l) @@ [from |-> l], "sd_journal_next", f)

\* previous_entry that advances with the forward primitive.
previous_entry_forward(jr, ms, l, f) ==
    read_after(jr, sd_journal_next(jr, ms, l) @@ [from |-> l], "sd_journal_next", f)

\* JournalReader::previous_entry
previous_entry(jr, ms, l, f) ==
    read_after(jr, sd_journal_previous(jr, ms, l) @@ [from |-> l],
               "sd_journal_previous", f)

(***************************************************************************)
(* JournalReader::seek, add_filter, wait_usec, open and drop as functions  *)
(* of the store state they act on.                                         *)
(***************************************************************************)
SeekOut(tag, err, l, calls, hit, read) ==
    [tag |-> tag, err |-> err, loc |-> l, calls |-> calls, hit |-> hit, read |-> read]

\* A run of bytes longer than the allocator's mmap threshold (128 KiB): the
\* allocator keeps a buffer that holds it in a mapping of its own, which free
\* may return to the system.
LONG == "x*200000"

\* The read of a page that is no longer mapped: SIGSEGV.
Unmapped == <<"SIGSEGV">>

\* What the seek primitive finds at the pointer it is handed.  The pointer is
\* CString::new(cur)?.as_ptr() of a temporary that is dropped at the end of
\* the let statement, so the call reads freed memory: the token as it was,
\* nothing (the allocator zeroed the first byte), bytes the allocator wrote
\* over the buffer ("?": its free-list data, none of the token) or, when
\* the buffer had a mapping of its own, no memory at all.
FreedReads(cur) ==
    {cur, <<>>, <<"?">>} \cup (IF Contains(cur, LONG) THEN {Unmapped} ELSE {})

\* seek whose Tail arm calls the primitive of the Head arm.
seek_tail_as_head(jr, l, sk, cur, read, f) ==
    IF sk \in {"Head", "Tail"}
    THEN LET r == ffi_result(IF f.at = "seek" THEN f.st ELSE 0)
         IN IF r.ok THEN SeekOut("Ok", NoErr, LocHead, <<"sd_journal_seek_head">>, FALSE, <<>>)
            ELSE SeekOut("Err", r.err, l, <<"sd_journal_seek_head">>, TRUE, <<>>)
    ELSE SeekOut("Err", OsError(EINVAL), l, <<"sd_journal_seek_cursor">>, FALSE, read)

\* seek that hands the token to the primitive up to its first NUL, without
\* the check of CString::new.
seek_nul_unchecked(jr, l, sk, cur, read, f) ==
    IF sk = "Head"
    THEN SeekOut("Ok", NoErr, LocHead, <<"sd_journal_seek_head">>, FALSE, <<>>)
    ELSE IF sk = "Tail"
    THEN SeekOut("Ok", NoErr, LocTail, <<"sd_journal_seek_tail">>, FALSE, <<>>)
    ELSE LET p == sd_journal_seek_cursor(jr, l, splitn_name(
                       [i \in 1..Len(read) |-> IF read[i] = NUL THEN EQ ELSE read[i]]))
             r == ffi_result(IF f.at = "seek" THEN f.st ELSE p.status)
         IN IF r.ok
            THEN SeekOut("Ok", NoErr, p.loc, <<"sd_journal_seek_cursor">>, FALSE, read)
            ELSE SeekOut("Err", r.err, l, <<"sd_journal_seek_cursor">>, f.at = "seek", read)

\* sk is "Head", "Tail" or "Cursor"; cur is the token of Cursor(cur) and read
\* is what the primitive reads at the pointer.  The read of unmapped memory
\* ends the process inside the primitive: seek does not return ("Killed").
seek(jr, l, sk, cur, read, f) ==
    IF sk = "Head"
    THEN LET r == ffi_result(IF f.at = "seek" THEN f.st ELSE 0)
         IN IF r.ok THEN SeekOut("Ok", NoErr, LocHead, <<"sd_journal_seek_head">>, FALSE, <<>>)
            ELSE SeekOut("Err", r.err, l, <<"sd_journal_seek_head">>, TRUE, <<>>)
    ELSE IF sk = "Tail"
    THEN LET r == ffi_result(IF f.at = "seek" THEN f.st ELSE 0)
         IN IF r.ok THEN SeekOut("Ok", NoErr, LocTail, <<"sd_journal_seek_tail">>, FALSE, <<>>)
            ELSE SeekOut("Err", r.err, l, <<"sd_journal_seek_tail">>, TRUE, <<>>)
    ELSE LET c == CStringNew(cur)
             p == sd_journal_seek_cursor(jr, l, read)
             r == ffi_result(IF f.at = "seek" THEN f.st ELSE p.status)
         IN IF ~c.ok THEN SeekOut("Err", c.err, l, <<>>, FALSE, <<>>)
            ELSE IF read = Unmapped
            THEN SeekOut("Killed", NoErr, l, <<"sd_journal_seek_cursor">>, FALSE, read)
            ELSE IF r.ok
            THEN SeekOut("Ok", NoErr, p.loc, <<"sd_journal_seek_cursor">>, FALSE, read)
            ELSE SeekOut("Err", r.err, l, <<"sd_journal_seek_cursor">>, f.at = "seek", read)

\* add_filter that registers nothing once a match is registered.
add_filter_first_only(ms, filter, f) ==
    LET c == CStringNew(filter)
        p == sd_journal_add_match(ms, filter)
        r == ffi_result(IF f.at = "add_match" THEN f.st ELSE p.status)
    IN IF ~c.ok
       THEN [tag |-> "Err", err |-> c.err, matches |-> ms, calls |-> <<>>, hit |-> FALSE]
       ELSE IF r.ok
       THEN [tag |-> "Ok", err |-> NoErr, matches |-> IF ms = {} THEN p.matches ELSE ms,
             calls |-> <<"sd_journal_add_match">>, hit |-> FALSE]
       ELSE [tag |-> "Err", err |-> r.err, matches |-> ms,
             calls |-> <<"sd_journal_add_match">>, hit |-> f.at = "add_match"]

\* add_filter that drops the status of the add-match primitive.
add_filter_unchecked(ms, filter, f) ==
    LET c == CStringNew(filter)
        p == sd_journal_add_match(ms, filter)
    IN IF ~c.ok
       THEN [tag |-> "Err", err |-> c.err, matches |-> ms, calls |-> <<>>, hit |-> FALSE]
       ELSE [tag |-> "Ok", err |-> NoErr, matches |-> p.matches,
             calls |-> <<"sd_journal_add_match">>, hit |-> f.at = "add_match"]

\* add_filter that registers the expression in place of the earlier ones.
add_filter_replacing(ms, filter, f) ==
    LET c == CStringNew(filter)
        p == sd_journal_add_match({}, filter)
        r == ffi_result(IF f.at = "add_match" THEN f.st ELSE p.status)
    IN IF ~c.ok
       THEN [tag |-> "Err", err |-> c.err, matches |-> ms, calls |-> <<>>, hit |-> FALSE]
       ELSE IF r.ok
       THEN [tag |-> "Ok", err |-> NoErr, matches |-> p.matches,
             calls |-> <<"sd_journal_add_match">>, hit |-> FALSE]
       ELSE [tag |-> "Err", err |-> r.err, matches |-> ms,
             calls |-> <<"sd_journal_add_match">>, hit |-> f.at = "add_match"]

\* JournalReader::add_filter: the expression goes to the add-match primitive
\* as a C string; nothing but the embedded NUL is checked on this side.
add_filter(ms, filter, f) ==
    LET c == CStringNew(filter)
        p == sd_journal_add_match(ms, filter)
        r == ffi_result(IF f.at = "add_match" THEN f.st ELSE p.status)
    IN IF ~c.ok
       THEN [tag |-> "Err", err |-> c.err, matches |-> ms, calls |-> <<>>, hit |-> FALSE]
       ELSE IF r.ok
       THEN [tag |-> "Ok", err |-> NoErr, matches |-> p.matches,
             calls |-> <<"sd_journal_add_match">>, hit |-> FALSE]
       ELSE [tag |-> "Err", err |-> r.err, matches |-> ms,
             calls |-> <<"sd_journal_add_match">>, hit |-> f.at = "add_match"]

\* WakeupType::try_from without the arm for 0.
WakeupType_try_from_no_nop(value) ==
    CASE value = 1 -> [ok |-> TRUE, wake |-> "APPEND", err |-> NoErr]
      [] value = 2 -> [ok |-> TRUE, wake |-> "INVALIDATE", err |-> NoErr]
      [] OTHER -> [ok |-> FALSE, wake |-> "-", err |-> OsError(EINVAL)]

\* WakeupType::try_from
WakeupType_try_from(value) ==
    CASE value = 0 -> [ok |-> TRUE, wake |-> "NOP", err |-> NoErr]
      [] value = 1 -> [ok |-> TRUE, wake |-> "APPEND", err |-> NoErr]
      [] value = 2 -> [ok |-> TRUE, wake |-> "INVALIDATE", err |-> NoErr]
      [] OTHER -> [ok |-> FALSE, wake |-> "-", err |-> OsError(EINVAL)]

\* JournalReader::wait_usec, given the events pending at the store.
wait_usec(evA, evI, f) ==
    LET r == ffi_result(IF f.at = "wait" THEN f.st ELSE sd_journal_wait(evA, evI))
        w == WakeupType_try_from(r.val)
    IN IF ~r.ok
       THEN [tag |-> "Err", wake |-> "-", err |-> r.err, hit |-> TRUE,
             calls |-> <<"sd_journal_wait">>]
       ELSE IF ~w.ok
       THEN [tag |-> "Err", wake |-> "-", err |-> w.err, hit |-> FALSE,
             calls |-> <<"sd_journal_wait">>]
       ELSE [tag |-> "Ok", wake |-> w.wake, err |-> NoErr, hit |-> FALSE,
             calls |-> <<"sd_journal_wait">>]

\* The wait primitive returns at once when an event is pending or it fails;
\* otherwise the calling thread blocks in it.
WaitReturns(evA, evI, f) ==
    \/ f.at = "wait"
    \/ evA
    \/ evI

\* A blocked wait returns with status 0 once its timeout has passed; a
\* timeout of u64::MAX microseconds never passes.
Elapses(usec) == usec # U64_MAX

\* Destruction without the null check.
drop_calls_unchecked(jv) ==
    <<"sd_journal_close">>

\* Drop for JournalReader: the primitives destruction calls for handle jv,
\* 0 being the null pointer.
drop_calls(jv) ==
    IF jv # 0 THEN <<"sd_journal_close">> ELSE <<>>

\* The flag bits of JournalReader::open.
SD_JOURNAL_LOCAL_ONLY == 1
SD_JOURNAL_RUNTIME_ONLY == 2
SD_JOURNAL_SYSTEM == 4
SD_JOURNAL_CURRENT_USER == 8
SD_JOURNAL_ALL_NAMESPACES == 32
SD_JOURNAL_INCLUDE_DEFAULT_NAMESPACE == 64

RECURSIVE BitOr(_, _)
BitOr(a, b) ==
    IF a = 0 THEN b
    ELSE IF b = 0 THEN a
    ELSE (IF a % 2 = 1 \/ b % 2 = 1 THEN 1 ELSE 0) + 2 * BitOr(a \div 2, b \div 2)

JournalFiles == {"System", "CurrentUser", "All"}

Configs == [files : JournalFiles, only_volatile : BOOLEAN, only_local : BOOLEAN]

\* What the caller's record of an open call keeps of its configuration.
ConfigArg(config) ==
    <<config.files, IF config.only_volatile THEN "only_volatile" ELSE "-",
      IF config.only_local THEN "only_local" ELSE "-">>

\* The flags with the system bit also set for JournalFiles::All.
open_flags_all_as_system(config) ==
    BitOr(BitOr(IF config.only_volatile THEN SD_JOURNAL_RUNTIME_ONLY ELSE 0,
                IF config.only_local THEN SD_JOURNAL_LOCAL_ONLY ELSE 0),
          IF config.files = "CurrentUser" THEN SD_JOURNAL_CURRENT_USER
          ELSE SD_JOURNAL_SYSTEM)

\* The flags JournalReader::open computes from its configuration.
open_flags(config) ==
    LET f1 == IF config.only_volatile THEN BitOr(0, SD_JOURNAL_RUNTIME_ONLY) ELSE 0
        f2 == IF config.only_local THEN BitOr(f1, SD_JOURNAL_LOCAL_ONLY) ELSE f1
    IN BitOr(f2, CASE config.files = "System" -> SD_JOURNAL_SYSTEM
                   [] config.files = "CurrentUser" -> SD_JOURNAL_CURRENT_USER
                   [] OTHER -> 0)

\* A configuration with the two fields only open_namespace reads.
NsConfigs(configs) ==
    {[files |-> c.files, only_volatile |-> c.only_volatile, only_local |-> c.only_local,
      all_namespaces |-> a, include_default_namespace |-> d] :
        c \in configs, a \in BOOLEAN, d \in BOOLEAN}

\* The namespaces a caller names: a plain one and one that holds a NUL.
Namespaces == {<<"ns">>, <<"n", NUL, "s">>}

\* The flags JournalReader::open_namespace computes from its configuration.
open_namespace_flags(config) ==
    LET f1 == IF config.only_volatile THEN BitOr(0, SD_JOURNAL_RUNTIME_ONLY) ELSE 0
        f2 == IF config.only_local THEN BitOr(f1, SD_JOURNAL_LOCAL_ONLY) ELSE f1
        f3 == BitOr(f2, CASE config.files = "System" -> SD_JOURNAL_SYSTEM
                          [] config.files = "CurrentUser" -> SD_JOURNAL_CURRENT_USER
                          [] OTHER -> 0)
        f4 == IF config.all_namespaces THEN BitOr(f3, SD_JOURNAL_ALL_NAMESPACES) ELSE f3
    IN IF config.include_default_namespace
       THEN BitOr(f4, SD_JOURNAL_INCLUDE_DEFAULT_NAMESPACE) ELSE f4

\* JournalEntry::get_message: the MESSAGE field, lossily decoded.
get_message(entry) ==
    IF <<"MESSAGE">> \in DOMAIN entry
    THEN [some |-> TRUE, val |-> from_utf8_lossy(entry[<<"MESSAGE">>])]
    ELSE [some |-> FALSE, val |-> <<>>]

\* JournalEntry::get_field_string_lossy
get_field_string_lossy(entry, field) ==
    IF field \in DOMAIN entry
    THEN [some |-> TRUE, val |-> from_utf8_lossy(entry[field])]
    ELSE [some |-> FALSE, val |-> <<>>]

\* str::parse::<i64>, on text given one character per token: an optional
\* sign, then one or more decimal digits and nothing else, of a value from
\* -2^63 to 2^63-1.  The value is kept as its sign and its decimal digits
\* without leading zeros (none for 0).
DigitChars == {Digit(d) : d \in 0..9}

DigitVal(c) == CHOOSE d \in 0..9 : Digit(d) = c

RECURSIVE StripZeros(_)
StripZeros(ds) ==
    IF ds # <<>> /\ ds[1] = "0" THEN StripZeros(Tail(ds)) ELSE ds

\* a <= b for digit strings of the same length.
RECURSIVE DigitsLeq(_, _)
DigitsLeq(a, b) ==
    IF a = <<>> THEN TRUE
    ELSE IF a[1] = b[1] THEN DigitsLeq(Tail(a), Tail(b))
    ELSE DigitVal(a[1]) < DigitVal(b[1])

\* The digits of i64::MAX and of the magnitude of i64::MIN.
I64MaxDigits ==
    <<"9", "2", "2", "3", "3", "7", "2", "0", "3", "6", "8", "5", "4", "7", "7",
      "5", "8", "0", "7">>
I64MinDigits ==
    <<"9", "2", "2", "3", "3", "7", "2", "0", "3", "6", "8", "5", "4", "7", "7",
      "5", "8", "0", "8">>

NoTimestamp == [some |-> FALSE, neg |-> FALSE, digits |-> <<>>]

parse_i64(s) ==
    LET signed == s # <<>> /\ s[1] \in {"+", "-"}
        neg == s # <<>> /\ s[1] = "-"
        ds == IF signed THEN Tail(s) ELSE s
        mag == StripZeros(ds)
        bound == IF neg THEN I64MinDigits ELSE I64MaxDigits
    IN IF ds = <<>> \/ \E i \in 1..Len(ds) : ds[i] \notin DigitChars
       THEN [ok |-> FALSE, neg |-> FALSE, digits |-> <<>>]
       ELSE IF \/ Len(mag) > Len(bound)
               \/ (Len(mag) = Len(bound) /\ ~DigitsLeq(mag, bound))
       THEN [ok |-> FALSE, neg |-> FALSE, digits |-> <<>>]
       ELSE [ok |-> TRUE, neg |-> (neg /\ mag # <<>>), digits |-> mag]

\* .and_then(|v| v.parse::<i64>().ok()).map(|v| JournalEntryTimestamp {..})
timestamp_of(v) ==
    LET p == parse_i64(v.val)
    IN IF v.some /\ p.ok THEN [some |-> TRUE, neg |-> p.neg, digits |-> p.digits]
       ELSE NoTimestamp

\* JournalEntry::get_source_wallclock_time
get_source_wallclock_time(entry) ==
    timestamp_of(get_field_string_lossy(entry, <<"_SOURCE_REALTIME_TIMESTAMP">>))

\* JournalEntry::get_reception_wallclock_time
get_reception_wallclock_time(entry) ==
    timestamp_of(get_field_string_lossy(entry, <<"__REALTIME_TIMESTAMP">>))

\* get_wallclock_time that prefers the reception time.
get_wallclock_time_reception_first(entry) ==
    IF get_reception_wallclock_time(entry).some
    THEN get_reception_wallclock_time(entry)
    ELSE get_source_wallclock_time(entry)

\* JournalEntry::get_wallclock_time: source_time.or(reception_time)
get_wallclock_time(entry) ==
    IF get_source_wallclock_time(entry).some
    THEN get_source_wallclock_time(entry)
    ELSE get_reception_wallclock_time(entry)

\* JournalEntry::set_message: the text's bytes become the MESSAGE field.
set_message(entry, msg) == insert(entry, <<"MESSAGE">>, msg)

(***************************************************************************)
(* The Writer.  submit checks the name of every field of the Entry, writes *)
(* each field as NAME=value and hands the list to the append primitive in  *)
(* one call.                                                               *)
(***************************************************************************)
\* A field name the Writer accepts: A-Z, 0-9 and '_' only.
field_name_valid(name) == Len(name) = 1 /\ name[1] \in ValidNames

\* The error of a caller's value that violates a local precondition.
ValidationError == [kind |-> "InvalidInput", code |-> 0]

\* The field names of the model in the order a BTreeMap holds them.
FieldOrder == << <<"F">>, <<"G">>, <<"MESSAGE">>, <<FILTER_FIELD>>, <<"bad field!">> >>

\* The fields of an Entry as the list of NAME=value items.
serialize(entry) ==
    LET keys == SelectSeq(FieldOrder, LAMBDA k : k \in DOMAIN entry)
    IN [i \in 1..Len(keys) |-> keys[i] \o <<EQ>> \o entry[keys[i]]]

\* submit that leaves the fields with an invalid name out.
submit_valid_fields_only(entry, f) ==
    LET good == {k \in DOMAIN entry : field_name_valid(k)}
        r == ffi_result(IF f.at = "sendv" THEN f.st ELSE 0)
    IN [tag |-> IF r.ok THEN "Ok" ELSE "Err", err |-> r.err,
        calls |-> <<"sd_journal_sendv">>,
        sent |-> IF r.ok THEN serialize([k \in good |-> entry[k]]) ELSE <<>>,
        hit |-> ~r.ok]

\* writer::submit: sent is the record handed to the store, <<>> when none is.
submit(entry, f) ==
    IF \E k \in DOMAIN entry : ~field_name_valid(k)
    THEN [tag |-> "Err", err |-> ValidationError, calls |-> <<>>, sent |-> <<>>,
          hit |-> FALSE]
    ELSE LET r == ffi_result(IF f.at = "sendv" THEN f.st ELSE 0)
         IN [tag |-> IF r.ok THEN "Ok" ELSE "Err", err |-> r.err,
             calls |-> <<"sd_journal_sendv">>,
             sent |-> IF r.ok THEN serialize(entry) ELSE <<>>,
             hit |-> ~r.ok]

(***************************************************************************)
(* open_systemd: the process-wide primitive set, loaded on first use.      *)
(***************************************************************************)
\* The threads that call open_systemd.
Callers == 1..MaxCallers

Running == [tag |-> "Running", err |-> NoErr]

\* A thread outside open_systemd that has not called it yet.
Caller0 == [pc |-> "idle", k |-> 0, res |-> [tag |-> "None", err |-> NoErr],
            found |-> 0, loaded |-> FALSE, api |-> [ok |-> FALSE, err |-> NoErr]]

\* What Container::load returns: the primitive set, or one of the errors of
\* the loader.
LoadOutcomes == {"Ok", "OpeningLibraryError", "SymbolGettingError", "NullSymbol"}

\* The io::Error the loader reports in OpeningLibraryError and in
\* SymbolGettingError.
LoadError == [kind |-> "Load", code |-> 0]

\* match api { .. }: the error of OpeningLibraryError and SymbolGettingError
\* is passed on as it is, any other error of the loader becomes
\* ENOTRECOVERABLE.
load_match(outcome) ==
    CASE outcome = "OpeningLibraryError" -> [ok |-> FALSE, err |-> LoadError]
      [] outcome = "SymbolGettingError" -> [ok |-> FALSE, err |-> LoadError]
      [] outcome = "Ok" -> [ok |-> TRUE, err |-> NoErr]
      [] OTHER -> [ok |-> FALSE, err |-> OsError(ENOTRECOVERABLE)]

\* fetch_update that also takes the counter from failed (2) to loading (1).
fetch_update_retrying(x) ==
    IF x \in {0, 2} THEN [ok |-> TRUE, prev |-> x, new |-> 1]
    ELSE [ok |-> FALSE, prev |-> x, new |-> x]

\* SYSTEMD_API_LOADING.fetch_update(SeqCst, SeqCst, |x| if x == 0 { Some(1) }
\* else { None }): Ok(previous) and the new value, or Err(current).
fetch_update(x) ==
    IF x = 0 THEN [ok |-> TRUE, prev |-> x, new |-> 1]
    ELSE [ok |-> FALSE, prev |-> x, new |-> x]

\* The match with Err(1) going on to the load.
open_systemd_match_joining(loading) ==
    CASE ~loading.ok /\ loading.prev = 2 -> [go |-> "return", err |-> OsError(ENOSYS)]
      [] ~loading.ok /\ loading.prev = 4 -> [go |-> "unwrap", err |-> NoErr]
      [] OTHER -> [go |-> "load", err |-> NoErr]

\* match loading { .. }: what open_systemd does with the result of
\* fetch_update.
open_systemd_match(loading) ==
    CASE ~loading.ok /\ loading.prev = 1 -> [go |-> "return", err |-> OsError(EAGAIN)]
      [] ~loading.ok /\ loading.prev = 2 -> [go |-> "return", err |-> OsError(ENOSYS)]
      [] ~loading.ok /\ loading.prev = 4 -> [go |-> "unwrap", err |-> NoErr]
      [] loading.ok /\ loading.prev = 0 -> [go |-> "load", err |-> NoErr]
      [] OTHER -> [go |-> "return", err |-> OsError(ENOTRECOVERABLE)]

\* The statements after a successful load with the counter stored first.
publish_step_ready_first(k) ==
    CASE k = 1 -> "store_ready"
      [] k = 2 -> "set_api"
      [] OTHER -> "return"

\* The statements after a successful load, in order: SYSTEMD_API = Some(api),
\* SYSTEMD_API_LOADING.store(4), return SYSTEMD_API.as_mut().unwrap().
publish_step(k) ==
    CASE k = 1 -> "set_api"
      [] k = 2 -> "store_ready"
      [] OTHER -> "return"

\* unsafe { SYSTEMD_API.as_mut() }.unwrap(): panics on None.
unwrap_api(api) ==
    IF api = "Some" THEN [tag |-> "Ok", err |-> NoErr] ELSE [tag |-> "Panic", err |-> NoErr]

(***************************************************************************)
(* State.                                                                  *)
(***************************************************************************)
VARIABLES
    journal,       \* the store: the records appended so far, each with the Entry
                   \* its writer submitted (src) when the Writer appended it
    evAppend,      \* a record was appended since the handle last waited
    evInvalidate,  \* the store invalidated its files since the handle last waited
    alive,         \* a JournalReader value exists
    j,             \* JournalReader.j: 0 is the null pointer, h > 0 a handle
    opened,        \* handles the open primitive has handed out
    closes,        \* closes[h]: calls of the close primitive on handle h
    loc,           \* the position of the handle
    matches,       \* the matches registered on the handle
    ret,           \* what the last call of the caller returned
    calls,         \* the primitives that call invoked, in order
    faults,        \* primitive failures injected so far
    pc,            \* where the calling thread is
    iter,          \* the JournalBlockingIter borrowed from the reader
    yielded,       \* record numbers the iterator yielded as Ok items
    polls,         \* for the iterator: records there at its last return, the record
                   \* appended just before a wait, and whether a matching append or
                   \* an invalidation has happened since the iterator last waited
    walk,          \* results of the previous_entry calls since seek(Tail)
    saved,         \* an entry the caller kept
    replay,        \* progress of seek(Cursor(saved cursor)) + next_entry
    noneSince,     \* per direction: Ok(None) was returned, no seek, append or filter since
    noneRun,       \* the same, also reset by a move in the other direction
    added,         \* the expressions add_filter accepted
    cfg,           \* what this run injects and records
    SYSTEMD_API_LOADING,  \* the load state counter
    SYSTEMD_API,   \* the process-wide handle: "None" or "Some"
    callers,       \* per thread: where it is in open_systemd, what its last call
                   \* returned, the counter value that call found and whether
                   \* that call ran the load
    loads          \* calls of Container::load so far

storeVars == <<journal, evAppend, evInvalidate>>
loaderVars == <<SYSTEMD_API_LOADING, SYSTEMD_API, callers, loads>>
readerVars ==
    <<journal, evAppend, evInvalidate, alive, j, opened, closes, loc, matches, ret,
      calls, faults, pc, iter, yielded, polls, walk, saved, replay, noneSince,
      noneRun, added, cfg>>
handleVars == <<alive, j, opened, closes>>
iterVars == <<iter, yielded, polls>>
histVars == <<walk, saved, replay, noneSince, noneRun, added>>
vars == <<journal, evAppend, evInvalidate, alive, j, opened, closes, loc, matches,
          ret, calls, faults, pc, iter, yielded, polls, walk, saved, replay,
          noneSince, noneRun, added, cfg, SYSTEMD_API_LOADING, SYSTEMD_API, callers,
          loads>>

Ret0 ==
    [op |-> "none", arg |-> <<>>, dur |-> <<>>, tag |-> "Ok", some |-> FALSE,
     entry |-> EmptyMap, err |-> NoErr, wake |-> "-", rec |-> 0, read |-> <<>>,
     quiet |-> FALSE, from |-> LocHead, flags |-> 0, sinceNone |-> FALSE,
     runNone |-> FALSE, faulted |-> FALSE, usec |-> <<0, 0, 0, 0>>, len |-> 0,
     after |-> <<>>, ts |-> NoTimestamp, status |-> 0, val |-> 0]

NoIter ==
    [on |-> FALSE, timeout |-> U64_MAX, atHead |-> FALSE, started |-> FALSE,
     done |-> FALSE, nb |-> FALSE]
NoPoll == [seen |-> 0, raced |-> 0, relevant |-> FALSE]
WalkOff == [on |-> FALSE, res |-> <<>>]
NoSaved == [has |-> FALSE, entry |-> EmptyMap, rec |-> 0, ms |-> {}, whole |-> FALSE]
NoNone == [next |-> FALSE, prev |-> FALSE]

InitFrom(c, r) ==
    /\ journal = <<>>
    /\ evAppend = FALSE
    /\ evInvalidate = FALSE
    /\ alive = FALSE
    /\ j = 0
    /\ opened = 0
    /\ closes = <<>>
    /\ loc = LocHead
    /\ matches = {}
    /\ ret = r
    /\ calls = <<>>
    /\ faults = 0
    /\ pc = "idle"
    /\ iter = NoIter
    /\ yielded = <<>>
    /\ polls = NoPoll
    /\ walk = WalkOff
    /\ saved = NoSaved
    /\ replay = 0
    /\ noneSince = NoNone
    /\ noneRun = NoNone
    /\ added = {}
    /\ cfg = c
    /\ SYSTEMD_API_LOADING = 0
    /\ SYSTEMD_API = "None"
    /\ callers = [c2 \in Callers |-> Caller0]
    /\ loads = 0

InitWith(c) == InitFrom(c, Ret0)

\* The faults the environment may still inject at the given primitives: up
\* to cfg.faults of them, or without end where the failures persist.
FaultChoices(points) ==
    {NoFault} \cup (IF cfg.persist \/ faults < cfg.faults
                    THEN Faults(points \cap cfg.points) ELSE {})

\* The number of failures so far.  Where failures persist, the count beyond
\* cfg.faults is kept as its parity only.
Count(hit) ==
    IF ~hit THEN faults
    ELSE IF cfg.persist /\ faults >= cfg.faults
    THEN (IF faults = cfg.faults THEN cfg.faults + 1 ELSE cfg.faults)
    ELSE faults + 1

Tracks(h) == h \in cfg.hist

\* The caller can use the reader: it exists, no call is in progress and no
\* iterator borrows it.
Usable == alive /\ pc = "idle" /\ ~iter.on

(***************************************************************************)
(* The store's writers.                                                    *)
(***************************************************************************)
\* A writer appends a record; the store stamps it.
StoreAppend ==
    /\ Len(journal) < MaxJournal
    /\ \E d \in Submitted(cfg.script, Len(journal) + 1) :
        journal' = Append(journal,
                          [data |-> d, rt |-> RealtimeAt(Len(journal) + 1),
                           mono |-> MonotonicAt(Len(journal) + 1), src |-> EmptyMap])
    /\ evAppend' = (alive \/ evAppend)
    /\ walk' = WalkOff
    /\ noneSince' = NoNone
    /\ noneRun' = NoNone
    /\ polls' = IF Matches(journal'[Len(journal')], matches)
                THEN [polls EXCEPT !.raced = IF pc = "wait" THEN Len(journal') ELSE @,
                                   !.relevant = alive \/ @]
                ELSE polls
    /\ UNCHANGED <<evInvalidate, handleVars, loc, matches, ret, calls, faults, pc,
                   iter, yielded, saved, replay, added, cfg, loaderVars>>

\* The store rotates or drops a file: readers are told to invalidate.
StoreInvalidate ==
    /\ alive
    /\ ~evInvalidate
    /\ evInvalidate' = TRUE
    /\ polls' = [polls EXCEPT !.relevant = TRUE]
    /\ UNCHANGED <<journal, evAppend, handleVars, loc, matches, ret, calls, faults,
                   pc, iter, yielded, histVars, cfg, loaderVars>>

\* A writer appends a record that does not pass the handle's matches once the
\* journal holds MaxJournal records: the handle never reads such a record, it
\* only learns that something was appended.
StoreAppendUnmatched ==
    /\ alive
    /\ Len(journal) = MaxJournal
    /\ \E d \in Pool : ~Matches([data |-> d], matches)
    /\ evAppend' = TRUE
    /\ UNCHANGED <<journal, evInvalidate, handleVars, loc, matches, ret, calls,
                   faults, pc, iterVars, histVars, cfg, loaderVars>>

\* Another writer, or an imported file, adds a record of other origin.
StoreAppendForeign ==
    /\ Len(journal) < MaxJournal
    /\ \E d \in ForeignPool :
        journal' = Append(journal,
                          [data |-> d, rt |-> RealtimeAt(Len(journal) + 1),
                           mono |-> MonotonicAt(Len(journal) + 1), src |-> EmptyMap])
    /\ evAppend' = (alive \/ evAppend)
    /\ walk' = WalkOff
    /\ noneSince' = NoNone
    /\ noneRun' = NoNone
    /\ UNCHANGED <<evInvalidate, handleVars, loc, matches, ret, calls, faults, pc,
                   iterVars, saved, replay, added, cfg, loaderVars>>

(***************************************************************************)
(* The Reader's operations, one action per call.                           *)
(***************************************************************************)
\* JournalReader::open.  On a failure of the open primitive the value under
\* construction is dropped with its null pointer.
Open ==
    /\ ~alive
    /\ pc = "idle"
    /\ opened < MaxOpens
    /\ \E config \in cfg.configs, f \in FaultChoices({"open"}) :
        LET r == ffi_result(IF f.at = "open" THEN f.st ELSE 0)
        IN /\ ret' = [Ret0 EXCEPT !.op = "open", !.arg = ConfigArg(config),
                                  !.flags = open_flags(config),
                                  !.tag = IF r.ok THEN "Ok" ELSE "Err",
                                  !.err = r.err, !.faulted = ~r.ok]
           /\ calls' = <<"sd_journal_open">> \o (IF r.ok THEN <<>> ELSE drop_calls(0))
           /\ faults' = Count(~r.ok)
           /\ alive' = r.ok
           /\ j' = IF r.ok THEN opened + 1 ELSE 0
           /\ opened' = IF r.ok THEN opened + 1 ELSE opened
           /\ closes' = IF r.ok THEN Append(closes, 0) ELSE closes
    /\ loc' = LocHead
    /\ matches' = {}
    /\ evAppend' = FALSE
    /\ evInvalidate' = FALSE
    /\ walk' = WalkOff
    /\ saved' = NoSaved
    /\ replay' = 0
    /\ noneSince' = NoNone
    /\ noneRun' = NoNone
    /\ added' = {}
    /\ UNCHANGED <<journal, pc, iterVars, cfg, loaderVars>>

\* JournalReader::open_namespace: the namespace is made a C string after the
\* Reader value is built and before the primitive is called; when it holds a
\* NUL the call returns InvalidInput and the primitive is not called.
OpenNamespace ==
    /\ ~alive
    /\ pc = "idle"
    /\ opened < MaxOpens
    /\ \E config \in NsConfigs(cfg.configs), namespace \in Namespaces,
          f \in FaultChoices({"open"}) :
        LET c == CStringNew(namespace)
            r == ffi_result(IF f.at = "open" THEN f.st ELSE 0)
            ok == c.ok /\ r.ok
        IN /\ ret' = [Ret0 EXCEPT !.op = "open_namespace",
                                  !.arg = ConfigArg(config)
                                          \o <<IF config.all_namespaces
                                               THEN "all_namespaces" ELSE "-",
                                               IF config.include_default_namespace
                                               THEN "include_default_namespace" ELSE "-">>
                                          \o namespace,
                                  !.flags = open_namespace_flags(config),
                                  !.tag = IF ok THEN "Ok" ELSE "Err",
                                  !.err = IF ~c.ok THEN c.err ELSE r.err,
                                  !.faulted = c.ok /\ ~r.ok]
           /\ calls' = (IF c.ok THEN <<"sd_journal_open_namespace">> ELSE <<>>)
                       \o (IF ok THEN <<>> ELSE drop_calls(0))
           /\ faults' = Count(c.ok /\ ~r.ok)
           /\ alive' = ok
           /\ j' = IF ok THEN opened + 1 ELSE 0
           /\ opened' = IF ok THEN opened + 1 ELSE opened
           /\ closes' = IF ok THEN Append(closes, 0) ELSE closes
    /\ loc' = LocHead
    /\ matches' = {}
    /\ evAppend' = FALSE
    /\ evInvalidate' = FALSE
    /\ walk' = WalkOff
    /\ saved' = NoSaved
    /\ replay' = 0
    /\ noneSince' = NoNone
    /\ noneRun' = NoNone
    /\ added' = {}
    /\ UNCHANGED <<journal, pc, iterVars, cfg, loaderVars>>

\* Drop for JournalReader.
Drop ==
    /\ Usable
    /\ calls' = drop_calls(j)
    /\ closes' = IF "sd_journal_close" \in Range(drop_calls(j)) /\ j \in DOMAIN closes
                  THEN [closes EXCEPT ![j] = @ + 1] ELSE closes
    /\ alive' = FALSE
    /\ j' = 0
    /\ ret' = [Ret0 EXCEPT !.op = "drop"]
    /\ walk' = WalkOff
    /\ replay' = 0
    /\ UNCHANGED <<storeVars, opened, loc, matches, faults, pc, iterVars, saved,
                   noneSince, noneRun, added, cfg, loaderVars>>

\* JournalReader::add_filter
AddFilter ==
    /\ Usable
    /\ \E filter \in cfg.filters, f \in FaultChoices({"add_match"}) :
       \E r \in {add_filter(matches, filter, f)} :
           /\ matches' = r.matches
           /\ ret' = [Ret0 EXCEPT !.op = "add_filter", !.arg = filter,
                                  !.tag = r.tag, !.err = r.err, !.faulted = r.hit]
           /\ calls' = r.calls
           /\ faults' = Count(r.hit)
           /\ added' = IF r.tag = "Ok" THEN added \cup {filter} ELSE added
           /\ noneSince' = IF r.tag = "Ok" THEN NoNone ELSE noneSince
           /\ noneRun' = IF r.tag = "Ok" THEN NoNone ELSE noneRun
    /\ walk' = WalkOff
    /\ replay' = 0
    /\ UNCHANGED <<storeVars, handleVars, loc, pc, iterVars, saved, cfg, loaderVars>>

\* The cursor tokens callers pass to seek: tokens of records of the journal,
\* a token with an embedded NUL, a malformed one and a malformed one longer
\* than the allocator's mmap threshold.
Tokens ==
    {CursorOf(i) : i \in 1..Len(journal)}
    \cup {<<"i", NUL, "1">>, <<"bogus">>, <<"bogus", LONG>>}

SeekArgs ==
    {[sk |-> "Head", cur |-> <<>>], [sk |-> "Tail", cur |-> <<>>]}
    \cup (IF cfg.cursors THEN {[sk |-> "Cursor", cur |-> t] : t \in Tokens} ELSE {})

\* JournalReader::seek.  A process the seek primitive's read killed takes no
\* further step: its Reader is never dropped and its handle never closed.
Seek ==
    /\ Usable
    /\ \E a \in SeekArgs, f \in FaultChoices({"seek"}) :
       \E read \in (IF a.sk = "Cursor" THEN FreedReads(a.cur) ELSE {<<>>}) :
       \E r \in {seek(journal, loc, a.sk, a.cur, read, f)} :
           /\ loc' = r.loc
           /\ ret' = [Ret0 EXCEPT !.op = "seek", !.arg = <<a.sk>> \o a.cur,
                                  !.tag = r.tag, !.err = r.err, !.read = r.read,
                                  !.from = loc, !.faulted = r.hit]
           /\ calls' = r.calls
           /\ faults' = Count(r.hit)
           /\ walk' = IF Tracks("walk") /\ a.sk = "Tail" /\ r.tag = "Ok"
                      THEN [on |-> TRUE, res |-> <<>>] ELSE WalkOff
           /\ replay' = IF /\ Tracks("saved")
                           /\ saved.has
                           /\ a.sk = "Cursor"
                           /\ a.cur = saved.entry[<<"__CURSOR">>]
                        THEN 1 ELSE 0
           /\ noneSince' = IF r.tag = "Ok" THEN NoNone ELSE noneSince
           /\ noneRun' = IF r.tag = "Ok" THEN NoNone ELSE noneRun
           /\ pc' = IF r.tag = "Killed" THEN "killed" ELSE pc
    /\ UNCHANGED <<storeVars, handleVars, matches, iterVars, saved, added, cfg, loaderVars>>

\* What the caller keeps of a returned entry.
Keep(r, keep) ==
    IF keep /\ r.tag = "Ok" /\ r.some
    THEN [has |-> TRUE, entry |-> r.entry, rec |-> r.rec, ms |-> matches,
          whole |-> ~r.hit]
    ELSE saved

KeepChoices == IF Tracks("saved") THEN BOOLEAN ELSE {FALSE}

ReadRet(op, r) ==
    [Ret0 EXCEPT !.op = op, !.tag = r.tag, !.some = r.some, !.entry = r.entry,
                 !.err = r.err, !.rec = r.rec, !.from = loc, !.faulted = r.hit,
                 !.len = Len(journal),
                 !.after = IF Tracks("seek") /\ ret.op = "seek" /\ ret.tag = "Ok"
                           THEN <<ret.arg[1], ret.from>> ELSE <<>>,
                 !.sinceNone = Tracks("none") /\
                               (IF op = "next_entry" THEN noneSince.next ELSE noneSince.prev),
                 !.runNone = Tracks("none") /\
                             (IF op = "next_entry" THEN noneRun.next ELSE noneRun.prev)]

\* JournalReader::next_entry
NextEntry ==
    /\ Usable
    /\ \E f \in FaultChoices({"advance", "enumerate", "realtime", "monotonic", "cursor"}),
          keep \in KeepChoices :
       \E r \in {next_entry(journal, matches, loc, f)} :
        LET none == r.tag = "Ok" /\ ~r.some
            moved == r.tag = "Ok" /\ r.some
        IN /\ loc' = r.loc
           /\ ret' = ReadRet("next_entry", r)
           /\ calls' = r.calls
           /\ faults' = Count(r.hit)
           /\ saved' = Keep(r, keep)
           /\ replay' = IF replay = 1 /\ ret.tag = "Ok" THEN 2 ELSE 0
           /\ noneSince' = IF Tracks("none") /\ none
                           THEN [noneSince EXCEPT !.next = TRUE] ELSE noneSince
           /\ noneRun' = IF ~Tracks("none") THEN noneRun
                         ELSE IF none THEN [noneRun EXCEPT !.next = TRUE]
                         ELSE IF moved THEN [noneRun EXCEPT !.prev = FALSE]
                         ELSE noneRun
           /\ pc' = IF r.tag = "Panic" THEN "panicked" ELSE pc
    /\ walk' = WalkOff
    /\ UNCHANGED <<storeVars, handleVars, matches, iterVars, added, cfg, loaderVars>>

\* JournalReader::previous_entry
PreviousEntry ==
    /\ Usable
    /\ \E f \in FaultChoices({"advance", "enumerate", "realtime", "monotonic", "cursor"}),
          keep \in KeepChoices :
       \E r \in {previous_entry(journal, matches, loc, f)} :
        LET none == r.tag = "Ok" /\ ~r.some
            moved == r.tag = "Ok" /\ r.some
            m == get_message(r.entry)
        IN /\ loc' = r.loc
           /\ ret' = ReadRet("previous_entry", r)
           /\ calls' = r.calls
           /\ faults' = Count(r.hit)
           /\ saved' = Keep(r, keep)
           /\ walk' = IF ~walk.on \/ r.tag # "Ok" \/ r.hit THEN WalkOff
                      ELSE IF Len(walk.res) < 3
                      THEN [walk EXCEPT !.res = Append(@, [some |-> r.some /\ m.some,
                                                           msg |-> m.val])]
                      ELSE walk
           /\ noneSince' = IF Tracks("none") /\ none
                           THEN [noneSince EXCEPT !.prev = TRUE] ELSE noneSince
           /\ noneRun' = IF ~Tracks("none") THEN noneRun
                         ELSE IF none THEN [noneRun EXCEPT !.prev = TRUE]
                         ELSE IF moved THEN [noneRun EXCEPT !.next = FALSE]
                         ELSE noneRun
           /\ pc' = IF r.tag = "Panic" THEN "panicked" ELSE pc
    /\ replay' = 0
    /\ UNCHANGED <<storeVars, handleVars, matches, iterVars, added, cfg, loaderVars>>

\* The caller catches the panic of a read (catch_unwind): the Reader, and
\* the iterator when the read was an iterator's, stay with the caller as the
\* read left them.
CatchUnwind ==
    /\ pc = "panicked"
    /\ alive
    /\ pc' = "idle"
    /\ UNCHANGED <<storeVars, handleVars, loc, matches, ret, calls, faults, iterVars,
                   histVars, cfg, loaderVars>>

\* The panic of a read unwinds the caller's frame, which owns the Reader and
\* the iterator over it, if any: the iterator is dropped, then Drop for
\* JournalReader runs as for any other destruction.
Unwind ==
    /\ pc = "panicked"
    /\ alive
    /\ calls' = drop_calls(j)
    /\ closes' = IF "sd_journal_close" \in Range(drop_calls(j)) /\ j \in DOMAIN closes
                  THEN [closes EXCEPT ![j] = @ + 1] ELSE closes
    /\ alive' = FALSE
    /\ j' = 0
    /\ ret' = [Ret0 EXCEPT !.op = "drop"]
    /\ pc' = "idle"
    /\ walk' = WalkOff
    /\ replay' = 0
    /\ iter' = NoIter
    /\ UNCHANGED <<storeVars, opened, loc, matches, faults, yielded, polls, saved,
                   noneSince, noneRun, added, cfg, loaderVars>>

\* The part wait_timeout and wait share: usec is the timeout handed to
\* wait_usec.
WaitCall(op, d, usec, f) ==
    IF WaitReturns(evAppend, evInvalidate, f)
    THEN LET r == wait_usec(evAppend, evInvalidate, f)
         IN /\ ret' = [Ret0 EXCEPT !.op = op, !.dur = d, !.usec = usec, !.tag = r.tag,
                                   !.err = r.err, !.wake = r.wake, !.from = loc,
                                   !.faulted = r.hit]
            /\ calls' = r.calls
            /\ faults' = Count(r.hit)
            /\ evAppend' = IF r.hit THEN evAppend ELSE FALSE
            /\ evInvalidate' = IF r.hit THEN evInvalidate ELSE FALSE
            /\ pc' = "idle"
    ELSE /\ ret' = [Ret0 EXCEPT !.op = op, !.dur = d, !.usec = usec, !.tag = "Blocked",
                                !.from = loc, !.quiet = TRUE]
         /\ calls' = <<"sd_journal_wait">>
         /\ pc' = "blocked"
         /\ UNCHANGED <<faults, evAppend, evInvalidate>>

\* JournalReader::wait_timeout
WaitTimeout ==
    /\ Usable
    /\ \E d \in cfg.durations, f \in FaultChoices({"wait"}) :
        LET u == duration_to_usec(d)
        IN IF ~u.ok
           THEN /\ ret' = [Ret0 EXCEPT !.op = "wait_timeout", !.dur = d, !.tag = "Err",
                                       !.err = u.err, !.from = loc,
                                       !.quiet = ~evAppend /\ ~evInvalidate]
                /\ calls' = <<>>
                /\ UNCHANGED <<faults, evAppend, evInvalidate, pc>>
           ELSE WaitCall("wait_timeout", d, u.val, f)
    /\ UNCHANGED <<journal, handleVars, loc, matches, iterVars, histVars, cfg, loaderVars>>

\* JournalReader::wait
Wait ==
    /\ Usable
    /\ \E f \in FaultChoices({"wait"}) : WaitCall("wait", <<>>, U64_MAX, f)
    /\ UNCHANGED <<journal, handleVars, loc, matches, iterVars, histVars, cfg, loaderVars>>

\* A blocked wait returns because an event arrived.
WaitWake ==
    /\ alive
    /\ pc = "blocked"
    /\ evAppend \/ evInvalidate
    /\ LET r == wait_usec(evAppend, evInvalidate, NoFault)
       IN ret' = [ret EXCEPT !.tag = r.tag, !.err = r.err, !.wake = r.wake,
                             !.quiet = FALSE]
    /\ evAppend' = FALSE
    /\ evInvalidate' = FALSE
    /\ pc' = "idle"
    /\ UNCHANGED <<journal, handleVars, loc, matches, calls, faults, iterVars,
                   histVars, cfg, loaderVars>>

\* A blocked wait returns because its timeout passed with no event.
WaitElapse ==
    /\ alive
    /\ pc = "blocked"
    /\ ~evAppend
    /\ ~evInvalidate
    /\ Elapses(ret.usec)
    /\ LET r == wait_usec(FALSE, FALSE, NoFault)
       IN ret' = [ret EXCEPT !.tag = r.tag, !.err = r.err, !.wake = r.wake]
    /\ pc' = "idle"
    /\ UNCHANGED <<storeVars, handleVars, loc, matches, calls, faults, iterVars,
                   histVars, cfg, loaderVars>>

(***************************************************************************)
(* JournalBlockingIter.  A poll is one call of next(); it runs next_wait,   *)
(* whose steps are separate actions because writers run between them.  pc  *)
(* is "next_wait" before the next_entry of a retry, "wait" before the wait, *)
(* "waiting" while the wait blocks and "next_entry" before the last         *)
(* next_entry.                                                             *)
(***************************************************************************)
\* next_wait after its first next_entry, ignoring the entry it found.
next_wait_first_unchecked(r) ==
    IF r.tag = "Ok" THEN "wait" ELSE "return"

\* next_wait after its first next_entry: wait when it found nothing, return
\* what it got otherwise.
next_wait_first(r) ==
    IF r.tag = "Ok" /\ ~r.some THEN "wait" ELSE "return"

\* next_wait retrying after APPEND only.
next_wait_woken_append_only(w) ==
    IF w.tag = "Err" THEN "return"
    ELSE IF w.wake = "APPEND" THEN "next_wait"
    ELSE "next_entry"

\* next_wait retrying after every wakeup.
next_wait_woken_retrying(w) ==
    IF w.tag = "Err" THEN "return" ELSE "next_wait"

\* next_wait after wait_usec: the error is returned, any wakeup but NOP
\* starts next_wait again, NOP leads to the last next_entry.
next_wait_woken(w) ==
    IF w.tag = "Err" THEN "return"
    ELSE IF w.wake # "NOP" THEN "next_wait"
    ELSE "next_entry"

\* JournalReader::as_blocking_iter and as_blocking_iter_timeout
IterNew ==
    /\ Usable
    /\ \E d \in {<<>>} \cup cfg.durations :
        LET u == IF d = <<>> THEN [ok |-> TRUE, val |-> U64_MAX, err |-> NoErr]
                 ELSE duration_to_usec(d)
        IN /\ ret' = [Ret0 EXCEPT !.op = IF d = <<>> THEN "as_blocking_iter"
                                         ELSE "as_blocking_iter_timeout",
                                  !.dur = d, !.tag = IF u.ok THEN "Ok" ELSE "Err",
                                  !.err = u.err, !.from = loc]
           /\ iter' = IF u.ok
                      THEN [NoIter EXCEPT !.on = TRUE, !.timeout = u.val,
                                          !.atHead = (loc = LocHead)]
                      ELSE NoIter
    /\ calls' = <<>>
    /\ yielded' = <<>>
    /\ polls' = [NoPoll EXCEPT !.relevant = polls.relevant]
    /\ UNCHANGED <<storeVars, handleVars, loc, matches, faults, pc, histVars, cfg, loaderVars>>

\* JournalBlockingIter::set_timeout, between any two polls of the iterator.
IterSetTimeout ==
    /\ alive
    /\ iter.on
    /\ ~iter.nb
    /\ pc = "idle"
    /\ \E d \in cfg.durations :
        LET u == duration_to_usec(d)
        IN /\ ret' = [Ret0 EXCEPT !.op = "set_timeout", !.dur = d,
                                  !.tag = IF u.ok THEN "Ok" ELSE "Err", !.err = u.err]
           /\ iter' = IF u.ok THEN [iter EXCEPT !.timeout = u.val] ELSE iter
    /\ calls' = <<>>
    /\ UNCHANGED <<storeVars, handleVars, loc, matches, faults, pc, yielded, polls,
                   histVars, cfg, loaderVars>>

\* Iterator::next returns next_wait().transpose(): Ok(Some(e)) is the item
\* Ok(e), Err(e) the item Err(e) and Ok(None) the end of the sequence, which
\* ends the caller's loop.
IterReturn(r) ==
    /\ ret' = [Ret0 EXCEPT !.op = "iter_next", !.tag = r.tag, !.some = r.some,
                           !.entry = r.entry, !.err = r.err, !.rec = r.rec,
                           !.from = loc, !.faulted = r.hit, !.len = Len(journal),
                           !.wake = IF Tracks("wake") /\ pc # "idle"
                                    THEN ret.wake ELSE "-"]
    /\ yielded' = IF r.tag = "Ok" /\ r.some THEN Append(yielded, r.rec) ELSE yielded
    /\ iter' = [iter EXCEPT !.started = TRUE, !.done = (r.tag = "Ok" /\ ~r.some)]
    /\ polls' = [polls EXCEPT !.seen = Len(journal)]
    /\ pc' = IF r.tag = "Panic" THEN "panicked" ELSE "idle"

ReadFaults == {"advance", "enumerate", "realtime", "monotonic", "cursor"}

\* next_wait, line 38: the first next_entry of a poll or of a retry.  The
\* iterator is not fused: a poll that follows the end of the sequence runs
\* next_wait like any other.
IterNext ==
    /\ alive
    /\ iter.on
    /\ ~iter.nb
    /\ pc \in {"idle", "next_wait"}
    /\ UNCHANGED <<storeVars, handleVars, matches, histVars, cfg, loaderVars>>
    /\ \E f \in FaultChoices(ReadFaults) :
       \E r \in {next_entry(journal, matches, loc, f)} :
           /\ loc' = r.loc
           /\ calls' = r.calls
           /\ faults' = Count(r.hit)
           /\ IF next_wait_first(r) = "wait"
              THEN /\ pc' = "wait"
                   /\ ret' = [Ret0 EXCEPT !.op = "iter_next", !.tag = "Running",
                                          !.from = loc]
                   /\ iter' = [iter EXCEPT !.started = TRUE, !.done = FALSE]
                   /\ UNCHANGED <<yielded, polls>>
              ELSE IterReturn(r)

\* What next_wait does with the result w of wait_usec.
IterWoken(w) ==
    /\ pc' = IF next_wait_woken(w) = "return" THEN "idle" ELSE next_wait_woken(w)
    /\ ret' = IF next_wait_woken(w) = "return"
              THEN [Ret0 EXCEPT !.op = "iter_next", !.tag = "Err", !.err = w.err,
                                !.from = loc, !.faulted = w.hit]
              ELSE [ret EXCEPT !.wake = w.wake]
    /\ calls' = w.calls
    /\ faults' = Count(w.hit)

\* next_wait, line 41: wait_usec(self.timeout) is called.
IterWait ==
    /\ alive
    /\ pc = "wait"
    /\ \E f \in FaultChoices({"wait"}) :
        IF WaitReturns(evAppend, evInvalidate, f)
        THEN LET w == wait_usec(evAppend, evInvalidate, f)
             IN /\ IterWoken(w)
                /\ evAppend' = IF w.hit THEN evAppend ELSE FALSE
                /\ evInvalidate' = IF w.hit THEN evInvalidate ELSE FALSE
                /\ polls' = IF w.hit THEN polls ELSE [polls EXCEPT !.relevant = FALSE]
        ELSE /\ pc' = "waiting"
             /\ calls' = <<"sd_journal_wait">>
             /\ UNCHANGED <<ret, faults, evAppend, evInvalidate, polls>>
    /\ UNCHANGED <<journal, handleVars, loc, matches, iter, yielded, histVars, cfg, loaderVars>>

\* The iterator's blocked wait returns because an event arrived.
IterWake ==
    /\ alive
    /\ pc = "waiting"
    /\ evAppend \/ evInvalidate
    /\ IterWoken(wait_usec(evAppend, evInvalidate, NoFault))
    /\ evAppend' = FALSE
    /\ evInvalidate' = FALSE
    /\ polls' = [polls EXCEPT !.relevant = FALSE]
    /\ UNCHANGED <<journal, handleVars, loc, matches, iter, yielded, histVars, cfg, loaderVars>>

\* The iterator's blocked wait returns because the timeout passed.
IterElapse ==
    /\ alive
    /\ pc = "waiting"
    /\ ~evAppend
    /\ ~evInvalidate
    /\ Elapses(iter.timeout)
    /\ IterWoken(wait_usec(FALSE, FALSE, NoFault))
    /\ UNCHANGED <<storeVars, handleVars, loc, matches, iterVars, histVars, cfg, loaderVars>>

\* next_wait, line 46: the next_entry after a NOP, whose result is returned.
IterLast ==
    /\ alive
    /\ pc = "next_entry"
    /\ UNCHANGED <<storeVars, handleVars, matches, histVars, cfg, loaderVars>>
    /\ \E f \in FaultChoices(ReadFaults) :
       \E r \in {next_entry(journal, matches, loc, f)} :
           /\ loc' = r.loc
           /\ calls' = r.calls
           /\ faults' = Count(r.hit)
           /\ IterReturn(r)

\* The caller's loop is over or the caller breaks out of it: the iterator is
\* dropped and the reader is the caller's again.
IterDrop ==
    /\ alive
    /\ iter.on
    /\ pc = "idle"
    /\ iter' = NoIter
    /\ UNCHANGED <<storeVars, handleVars, loc, matches, ret, calls, faults, pc,
                   yielded, polls, histVars, cfg, loaderVars>>

\* The steps of the thread that runs the iterator's loop.
IterStep == IterNext \/ IterWait \/ IterWake \/ IterElapse \/ IterLast

(***************************************************************************)
(* JournalIter, the non-blocking iterator: next() is the transposed result *)
(* of one next_entry.                                                      *)
(***************************************************************************)
\* next() that waits when next_entry found nothing.
JournalIter_next_waiting(r) ==
    IF r.tag = "Ok" /\ ~r.some THEN "wait" ELSE "return"

\* JournalIter::next after its next_entry: the result is returned as it is.
JournalIter_next(r) == "return"

\* JournalReader::as_iter
AsIter ==
    /\ Usable
    /\ ret' = [Ret0 EXCEPT !.op = "as_iter", !.from = loc]
    /\ iter' = [NoIter EXCEPT !.on = TRUE, !.nb = TRUE, !.atHead = (loc = LocHead)]
    /\ calls' = <<>>
    /\ yielded' = <<>>
    /\ polls' = [NoPoll EXCEPT !.relevant = polls.relevant]
    /\ UNCHANGED <<storeVars, handleVars, loc, matches, faults, pc, histVars, cfg, loaderVars>>

\* JournalIter::next, one call of the caller's loop.
NbIterNext ==
    /\ alive
    /\ iter.on
    /\ iter.nb
    /\ ~iter.done
    /\ pc = "idle"
    /\ UNCHANGED <<storeVars, handleVars, matches, histVars, cfg, loaderVars>>
    /\ \E f \in FaultChoices(ReadFaults) :
       \E r \in {next_entry(journal, matches, loc, f)} :
           /\ loc' = r.loc
           /\ calls' = r.calls
           /\ faults' = Count(r.hit)
           /\ IF JournalIter_next(r) = "wait"
              THEN /\ pc' = "wait"
                   /\ ret' = [Ret0 EXCEPT !.op = "iter_next", !.tag = "Running",
                                          !.from = loc]
                   /\ iter' = [iter EXCEPT !.started = TRUE]
                   /\ UNCHANGED <<yielded, polls>>
              ELSE IterReturn(r)

(***************************************************************************)
(* ffi_result, called by the caller on a status of its own.                *)
(***************************************************************************)
\* The statuses handed to ffi_result: negated error codes, 0, positive
\* counts and the ends of c_int.
Statuses == (-MaxStatus..MaxStatus) \cup {I32_MIN, I32_MAX}

FfiResult ==
    /\ pc = "idle"
    /\ ~iter.on
    /\ \E r \in Statuses :
       \E o \in ffi_result_outcomes(r) :
        ret' = [Ret0 EXCEPT !.op = "ffi_result", !.status = r, !.tag = o.tag,
                            !.val = o.val, !.err = o.err]
    /\ calls' = <<>>
    /\ UNCHANGED <<storeVars, handleVars, loc, matches, faults, pc, iterVars,
                   histVars, cfg, loaderVars>>

(***************************************************************************)
(* open_systemd, one action per step of a calling thread.  The counter's   *)
(* operations are sequentially consistent atomics: each is one step.       *)
(***************************************************************************)
\* A thread calls open_systemd: fetch_update and the match on its result.
OpenSystemdEnter ==
    /\ \E c \in Callers :
        /\ callers[c].pc = "idle"
        /\ \E l \in {fetch_update(SYSTEMD_API_LOADING)} :
           \E m \in {open_systemd_match(l)} :
            /\ SYSTEMD_API_LOADING' = l.new
            /\ callers' = [callers EXCEPT ![c] =
                              [pc |-> IF m.go = "return" THEN "idle" ELSE m.go,
                               k |-> 0,
                               res |-> IF m.go = "return"
                                       THEN [tag |-> "Err", err |-> m.err] ELSE Running,
                               found |-> l.prev, loaded |-> FALSE,
                               api |-> Caller0.api]]
    /\ UNCHANGED <<SYSTEMD_API, loads, readerVars>>

\* Container::load("libsystemd.so.0") and the match on its result.
OpenSystemdLoad ==
    /\ loads < MaxLoads
    /\ \E c \in Callers, outcome \in LoadOutcomes :
       \E api \in {load_match(outcome)} :
        /\ callers[c].pc = "load"
        /\ callers' = [callers EXCEPT ![c].pc = IF api.ok THEN "publish" ELSE "failed",
                                      ![c].k = IF api.ok THEN 1 ELSE 0,
                                      ![c].loaded = TRUE,
                                      ![c].api = api]
    /\ loads' = loads + 1
    /\ UNCHANGED <<SYSTEMD_API_LOADING, SYSTEMD_API, readerVars>>

\* if let Err(x) = api: store(2) and return Err(x).
OpenSystemdFailed ==
    /\ \E c \in Callers :
        /\ callers[c].pc = "failed"
        /\ callers' = [callers EXCEPT ![c].pc = "idle",
                                      ![c].res = [tag |-> "Err",
                                                  err |-> callers[c].api.err]]
    /\ SYSTEMD_API_LOADING' = 2
    /\ UNCHANGED <<SYSTEMD_API, loads, readerVars>>

\* The next statement after a successful load.
OpenSystemdPublish ==
    /\ \E c \in Callers :
        /\ callers[c].pc = "publish"
        /\ \E st \in {publish_step(callers[c].k)} :
            /\ SYSTEMD_API' = IF st = "set_api" THEN "Some" ELSE SYSTEMD_API
            /\ SYSTEMD_API_LOADING' = IF st = "store_ready" THEN 4 ELSE SYSTEMD_API_LOADING
            /\ callers' = IF st = "return"
                          THEN [callers EXCEPT ![c].pc = "idle", ![c].k = 0,
                                               ![c].res = unwrap_api(SYSTEMD_API)]
                          ELSE [callers EXCEPT ![c].k = @ + 1]
    /\ UNCHANGED <<loads, readerVars>>

\* Err(4) => return Ok(SYSTEMD_API.as_mut().unwrap())
OpenSystemdReady ==
    /\ \E c \in Callers :
        /\ callers[c].pc = "unwrap"
        /\ callers' = [callers EXCEPT ![c].pc = "idle",
                                      ![c].res = unwrap_api(SYSTEMD_API)]
    /\ UNCHANGED <<SYSTEMD_API_LOADING, SYSTEMD_API, loads, readerVars>>

(***************************************************************************)
(* The caller's submissions.                                               *)
(***************************************************************************)
\* The Entry a run submits: MESSAGE = s, the filter field with the run's
\* value and, when bad, one field with an invalid name.
EntryOf(s, run, bad) ==
    LET e == insert(set_message(EmptyMap, s), <<FILTER_FIELD>>, UniqueId(run))
    IN IF bad THEN insert(e, <<"bad field!">>, <<"x">>) ELSE e

\* The messages a run submits: the first run any of the texts, every other
\* run the test's first message.
TextsOf(run) == IF run = 1 THEN cfg.texts ELSE {messages_expected[1]}

\* writer::submit, called between the Reader's calls.
Submit ==
    /\ pc = "idle"
    /\ ~iter.on
    /\ Len(journal) < MaxJournal
    /\ \E run \in Runs, bad \in BOOLEAN, f \in FaultChoices({"sendv"}) :
       \E s \in TextsOf(run) :
        LET entry == EntryOf(s, run, bad)
            r == submit(entry, f)
            stored == r.sent # <<>>
        IN /\ ret' = [Ret0 EXCEPT !.op = "submit", !.entry = entry, !.tag = r.tag,
                                  !.err = r.err, !.faulted = r.hit,
                                  !.len = Len(journal)]
           /\ calls' = r.calls
           /\ faults' = Count(r.hit)
           /\ journal' = IF stored
                         THEN Append(journal,
                                     [data |-> r.sent, rt |-> RealtimeAt(Len(journal) + 1),
                                      mono |-> MonotonicAt(Len(journal) + 1),
                                      src |-> entry])
                         ELSE journal
           /\ evAppend' = ((stored /\ alive) \/ evAppend)
           /\ walk' = IF stored THEN WalkOff ELSE walk
           /\ noneSince' = IF stored THEN NoNone ELSE noneSince
           /\ noneRun' = IF stored THEN NoNone ELSE noneRun
    /\ UNCHANGED <<evInvalidate, handleVars, loc, matches, pc, iterVars, saved,
                   replay, added, cfg, loaderVars>>

(***************************************************************************)
(* Specifications.  Each one fixes in cfg which inputs the caller and the  *)
(* writers draw from and which histories are recorded.                     *)
(***************************************************************************)
ValidFilters == {Item("F", <<"a">>), Item("F", <<"b">>), Item("G", <<"x">>)}

DefaultConfig == [files |-> "All", only_volatile |-> FALSE, only_local |-> FALSE]

\* The primitives whose calls may be made to fail.
FaultPoints ==
    {"open", "add_match", "seek", "advance", "enumerate", "realtime", "monotonic",
     "cursor", "wait", "sendv"}

\* The tests' setting: the store receives the script's records and the
\* Reader filters on the run's value.
TestCfg(c) ==
    [c EXCEPT !.script = "test", !.filters = {Item(FILTER_FIELD, UniqueId(1))}]

Cfg0 ==
    [faults |-> 0, hist |-> {}, script |-> "mixed", filters |-> ValidFilters,
     durations |-> Durations, configs |-> {DefaultConfig}, cursors |-> FALSE,
     texts |-> {}, points |-> FaultPoints, persist |-> FALSE]

\* The Reader's calls against failing primitives.
NextApi ==
    \/ StoreAppend
    \/ Open
    \/ Drop
    \/ AddFilter
    \/ Seek
    \/ NextEntry
    \/ PreviousEntry

Init ==
    InitWith([Cfg0 EXCEPT !.faults = MaxFaults, !.cursors = TRUE,
                          !.filters = {Item("F", <<"a">>), Item("bad field!", <<"x">>),
                                       Item("F", <<"a", NUL, "b">>)}])
Spec == Init /\ [][NextApi]_vars

\* Reads, walks and filters with primitives that do not fail.
InitRead ==
    \E c \in {[Cfg0 EXCEPT !.hist = {"walk", "none"}]} :
        InitWith(c) \/ InitWith(TestCfg(c))
SpecRead == InitRead /\ [][NextApi]_vars

\* Entries the caller keeps and seeks back to by their cursor.
InitCursor ==
    InitWith([Cfg0 EXCEPT !.hist = {"saved"}, !.cursors = TRUE,
                          !.filters = {Item("F", <<"a">>)}])
SpecCursor == InitCursor /\ [][NextApi]_vars

\* Waits against the writers.  The wait primitive returns once an event is
\* there for it or its timeout has passed.
NextWait ==
    \/ StoreAppend
    \/ StoreInvalidate
    \/ Open
    \/ Seek
    \/ WaitTimeout
    \/ Wait
    \/ WaitWake
    \/ WaitElapse

InitWait == InitWith([Cfg0 EXCEPT !.filters = {Item("F", <<"a">>)}])
SpecWait == InitWait /\ [][NextWait]_vars /\ WF_vars(WaitWake \/ WaitElapse)

\* The blocking iterator against the writers.  The thread that runs the
\* caller's loop keeps running: it takes its next step whenever it has one.
NextIter ==
    \/ StoreAppend
    \/ StoreAppendUnmatched
    \/ StoreInvalidate
    \/ Open
    \/ AddFilter
    \/ Seek
    \/ IterNew
    \/ IterSetTimeout
    \/ IterNext
    \/ IterWait
    \/ IterWake
    \/ IterElapse
    \/ IterLast
    \/ IterDrop

InitIter ==
    \E c \in {[Cfg0 EXCEPT !.filters = {Item("F", <<"a">>)},
                           !.durations = {<<16960, 15, 0, 0, 0, 0, 0, 0>>,
                                          <<0, 0, 0, 0, 1, 0, 0, 0>>}]} :
        InitWith(c) \/ InitWith(TestCfg(c))
SpecIter == InitIter /\ [][NextIter]_vars /\ WF_vars(IterStep)

\* The blocking iterator against the writers and against primitives that
\* may fail at any call, again and again.
InitEnds ==
    InitWith([Cfg0 EXCEPT !.faults = MaxFaults, !.persist = TRUE,
                          !.points = {"advance", "wait"},
                          !.filters = {Item("F", <<"a">>)},
                          !.durations = {<<16960, 15, 0, 0, 0, 0, 0, 0>>}])
SpecEnds == InitEnds /\ [][NextIter]_vars /\ WF_vars(IterStep)

\* Reads that remember the seek they follow.
InitSeek ==
    \E c \in {[Cfg0 EXCEPT !.hist = {"seek"}]} :
        InitWith(c) \/ InitWith(TestCfg(c))
SpecSeek == InitSeek /\ [][NextApi]_vars

\* The polls of the blocking iterator against writers and failing
\* primitives; a returned poll keeps the last wakeup of its wait.
NextPoll ==
    \/ StoreAppend
    \/ StoreInvalidate
    \/ Open
    \/ Seek
    \/ IterNew
    \/ IterNext
    \/ IterWait
    \/ IterWake
    \/ IterElapse
    \/ IterLast
    \/ IterDrop

InitPoll ==
    InitWith([Cfg0 EXCEPT !.faults = MaxFaults, !.hist = {"wake"},
                          !.durations = {<<16960, 15, 0, 0, 0, 0, 0, 0>>}])
SpecPoll == InitPoll /\ [][NextPoll]_vars

\* The non-blocking iterator against writers and failing primitives.  The
\* thread that runs the caller's loop keeps running.
NextNb ==
    \/ StoreAppend
    \/ Open
    \/ AddFilter
    \/ Seek
    \/ AsIter
    \/ NbIterNext
    \/ IterDrop

InitNb ==
    InitWith([Cfg0 EXCEPT !.faults = MaxFaults, !.persist = TRUE,
                          !.filters = {Item("F", <<"a">>)}])
SpecNb == InitNb /\ [][NextNb]_vars /\ WF_vars(NbIterNext)

\* get_wallclock_time on entries whose two timestamp fields hold any of the
\* texts below or are missing.
TimestampTexts ==
    {to_string(0), to_string(1700000000), <<"-">> \o to_string(5), <<"+">> \o to_string(7),
     <<"0", "0", "7">>, <<>>, <<"-">>, <<"1", "2", "a">>, <<" ", "1", "2">>,
     <<"1", "xFF">>, I64MaxDigits, I64MinDigits, <<"-">> \o I64MinDigits,
     <<"-">> \o SubSeq(I64MinDigits, 1, 18) \o <<"9">>}

WithField(e, k, v) == IF v = <<"absent">> THEN e ELSE insert(e, k, v)

ClockEntries ==
    {WithField(WithField(set_message(EmptyMap, <<"m1">>),
                         <<"_SOURCE_REALTIME_TIMESTAMP">>, s),
               <<"__REALTIME_TIMESTAMP">>, r) :
        s \in TimestampTexts \cup {<<"absent">>},
        r \in TimestampTexts \cup {<<"absent">>}}

GetWallclockTime ==
    /\ ret.op = "entry"
    /\ ret' = [ret EXCEPT !.op = "get_wallclock_time",
                          !.ts = get_wallclock_time(ret.entry)]
    /\ UNCHANGED <<storeVars, handleVars, loc, matches, calls, faults, pc, iterVars,
                   histVars, cfg, loaderVars>>

InitClock ==
    \E e \in ClockEntries : InitFrom(Cfg0, [Ret0 EXCEPT !.op = "entry", !.entry = e])
SpecClock == InitClock /\ [][GetWallclockTime]_vars

\* Timeouts handed to wait_timeout and to the blocking iterator.
NextTimeout ==
    \/ StoreAppend
    \/ Open
    \/ WaitTimeout
    \/ WaitWake
    \/ WaitElapse
    \/ IterNew
    \/ IterSetTimeout
    \/ IterNext
    \/ IterWait
    \/ IterWake
    \/ IterElapse
    \/ IterLast
    \/ IterDrop

InitTimeout == InitWith(Cfg0)
SpecTimeout == InitTimeout /\ [][NextTimeout]_vars

\* The Writer's submissions and a Reader that reads them back.
Texts == {<<"m1">>, <<"m", EQ, "2">>, <<EQ, "x", EQ>>}

NextWrite ==
    \/ Submit
    \/ Open
    \/ AddFilter
    \/ Seek
    \/ PreviousEntry

\* Of the primitives only the append primitive fails here.
InitWrite ==
    InitWith([Cfg0 EXCEPT !.faults = MaxFaults, !.points = {"sendv"}, !.texts = Texts,
                          !.filters = {Item(FILTER_FIELD, UniqueId(run)) : run \in Runs}])
SpecWrite == InitWrite /\ [][NextWrite]_vars

\* Reads of records of other origin, against failing primitives of the read
\* path.
NextForeign ==
    \/ StoreAppendForeign
    \/ Open
    \/ Seek
    \/ NextEntry
    \/ PreviousEntry
    \/ CatchUnwind
    \/ Unwind

InitForeign ==
    InitWith([Cfg0 EXCEPT !.faults = MaxFaults,
                          !.points = {"enumerate", "realtime", "monotonic", "cursor"}])
SpecForeign == InitForeign /\ [][NextForeign]_vars

\* Reads and iterations over records of other origin whose panics the caller
\* catches or lets unwind.
NextUnwind ==
    \/ StoreAppendForeign
    \/ Open
    \/ NextEntry
    \/ IterNew
    \/ IterNext
    \/ IterWait
    \/ IterWake
    \/ IterElapse
    \/ IterLast
    \/ AsIter
    \/ NbIterNext
    \/ IterDrop
    \/ CatchUnwind
    \/ Unwind

InitUnwind == InitWith([Cfg0 EXCEPT !.durations = {<<16960, 15, 0, 0, 0, 0, 0, 0>>}])
SpecUnwind == InitUnwind /\ [][NextUnwind]_vars

\* Readers opened with every configuration.
NextOpen ==
    \/ StoreAppend
    \/ Open
    \/ OpenNamespace
    \/ Drop

InitOpen == InitWith([Cfg0 EXCEPT !.faults = MaxFaults, !.configs = Configs])
SpecOpen == InitOpen /\ [][NextOpen]_vars

\* Every operation of a Reader and of its iteration adapters, against the
\* writers; the store rejects one of the filter expressions.
NextFilters ==
    \/ StoreAppend
    \/ Open
    \/ Drop
    \/ AddFilter
    \/ Seek
    \/ NextEntry
    \/ PreviousEntry
    \/ Wait
    \/ WaitWake
    \/ IterNew
    \/ IterNext
    \/ IterWait
    \/ IterWake
    \/ IterElapse
    \/ IterLast
    \/ AsIter
    \/ NbIterNext
    \/ IterDrop

InitFilters ==
    InitWith([Cfg0 EXCEPT !.filters = {Item("F", <<"a">>), Item("G", <<"x">>),
                                       Item("bad field!", <<"x">>)},
                          !.durations = {<<16960, 15, 0, 0, 0, 0, 0, 0>>}])
SpecFilters == InitFilters /\ [][NextFilters]_vars

\* ffi_result on any status, and the calls whose primitives report 0: reads
\* at an end of the journal and waits that time out.
NextStatus ==
    \/ StoreAppend
    \/ Open
    \/ Seek
    \/ NextEntry
    \/ PreviousEntry
    \/ WaitTimeout
    \/ WaitWake
    \/ WaitElapse
    \/ FfiResult

InitStatus ==
    InitWith([Cfg0 EXCEPT !.faults = MaxFaults, !.points = {"advance", "wait"},
                          !.durations = {<<16960, 15, 0, 0, 0, 0, 0, 0>>}])
SpecStatus == InitStatus /\ [][NextStatus]_vars

\* Threads that call open_systemd concurrently, again and again.
NextLoad ==
    \/ OpenSystemdEnter
    \/ OpenSystemdLoad
    \/ OpenSystemdFailed
    \/ OpenSystemdPublish
    \/ OpenSystemdReady

InitLoad == InitWith(Cfg0)
SpecLoad == InitLoad /\ [][NextLoad]_vars

(***************************************************************************)
(* Claims about failing calls and the handle's lifetime, checked under     *)
(* Spec.                                                                   *)
(***************************************************************************)
IsRead == ret.op \in {"next_entry", "previous_entry"}

\* C4: when a primitive called during next_entry or previous_entry reports a
\* negative status, the call returns an error and no Entry.
C4_FailedReadReturnsError ==
    (IsRead /\ ret.faulted) => (ret.tag = "Err" /\ ret.err.kind = "Os")

\* C5: the close primitive is called exactly once for each handle open
\* obtained, by the destruction of its Reader and not while the Reader lives,
\* whatever calls failed before; a failed open leaves the pointer null and its
\* destruction calls no primitive.  (A process that died inside seek destroys
\* no Reader: its handle is unclosed, as that of a Reader that lives.)
C5_CloseExactlyOnce ==
    /\ Len(closes) = opened
    /\ \A h \in 1..opened : closes[h] = (IF alive /\ j = h THEN 0 ELSE 1)
    /\ alive <=> j # 0
    /\ "sd_journal_close" \in Range(calls) => ret.op = "drop"
    /\ (ret.op = "open" /\ ret.tag = "Err") =>
            (calls = <<"sd_journal_open">> /\ j = 0 /\ ~alive)

\* A Reader was destroyed after one of its calls had failed.
C5_Witness ==
    /\ ~alive
    /\ opened = 1
    /\ closes = <<1>>
    /\ faults = 1
    /\ ret.op = "drop"

\* The field name of a match expression is not one the store accepts.
InvalidFieldName(filter) ==
    /\ ~Contains(filter, NUL)
    /\ ~match_is_valid(filter)

\* C10 as stated: add_filter with an invalid field name fails with a
\* validation error before the add-match primitive is called.
C10_Original ==
    (ret.op = "add_filter" /\ InvalidFieldName(ret.arg)) =>
        (ret.tag = "Err" /\ ret.err.kind = "InvalidInput" /\ calls = <<>>)

\* C10 amended: add_filter with an invalid field name hands the expression to
\* the add-match primitive and fails with the error made from the negative
\* status that primitive returns; the registered filters stay as they were.
C10_InvalidNameRejectedByStore ==
    [][(ret'.op = "add_filter" /\ InvalidFieldName(ret'.arg)) =>
          /\ ret'.tag = "Err"
          /\ ret'.err.kind = "Os"
          /\ (~ret'.faulted => ret'.err = OsError(EINVAL))
          /\ calls' = <<"sd_journal_add_match">>
          /\ matches' = matches
          /\ added' = added]_vars

\* add_filter("bad field!=x") was refused on a Reader that holds a filter.
C10_Witness ==
    /\ ret.op = "add_filter"
    /\ ret.arg = Item("bad field!", <<"x">>)
    /\ ret.err = OsError(EINVAL)
    /\ matches = {Item("F", <<"a">>)}

(***************************************************************************)
(* Claims about reading, checked under SpecRead.                           *)
(***************************************************************************)
\* The message a writer submitted in record i: the value of its first item.
SubmittedMessage(i) ==
    SubSeq(journal[i].data[1], 3, Len(journal[i].data[1]))

\* The k-th smallest and the k-th largest element of a set of numbers.
NthFirst(S, k) == CHOOSE x \in S : Cardinality({y \in S : y < x}) = k - 1
NthLast(S, k) == CHOOSE x \in S : Cardinality({y \in S : y > x}) = k - 1

\* C1: after m1, m2, m3 were submitted in that order, a Reader whose filters
\* pass them seeks to Tail and calls previous_entry three times: the calls
\* return m3, m2, m1.  In general the k-th previous_entry after seek(Tail)
\* returns the message of the k-th last record that passes the filters, and
\* nothing once there is no such record.
C1_ReverseWalk ==
    walk.on =>
        LET M == MatchIdx(journal, matches)
        IN \A k \in 1..Len(walk.res) :
            IF k <= Cardinality(M)
            THEN walk.res[k] = [some |-> TRUE, msg |-> SubmittedMessage(NthLast(M, k))]
            ELSE ~walk.res[k].some

\* The three submitted messages were read backward from Tail through a filter
\* that passes all of them.
C1_Witness ==
    /\ walk.on
    /\ Len(journal) = 3
    /\ matches = {Item(FILTER_FIELD, UniqueId(1))}
    /\ Len(walk.res) = 3
    /\ walk.res[1].msg = messages_expected[3]
    /\ walk.res[2].msg = messages_expected[2]
    /\ walk.res[3].msg = messages_expected[1]

\* The records among M that lie beyond position l in the direction of op.
Beyond(op, l, M) ==
    {i \in M :
        IF op = "next_entry"
        THEN CASE l.t = "head" -> TRUE
               [] l.t = "tail" -> FALSE
               [] l.t = "at" -> i > l.i
               [] OTHER -> i >= l.i
        ELSE CASE l.t = "head" -> FALSE
               [] l.t = "tail" -> TRUE
               [] l.t = "at" -> i < l.i
               [] OTHER -> i <= l.i}

\* The records, among those the journal held when the last call was made,
\* that hold for every field name of the accepted expressions one of the
\* expressions accepted for that name.
Wanted ==
    {i \in 1..ret.len :
        \A e \in added :
            \E e2 \in added : /\ splitn_name(e2) = splitn_name(e)
                              /\ e2 \in Range(journal[i].data)}

\* C8: next_entry and previous_entry return exactly the records that match
\* the accepted expressions, those of different field names taken together
\* and those of the same field name as alternatives: each call returns the
\* nearest such record in its direction, and nothing when there is none.
C8_FiltersCombine ==
    (IsRead /\ ret.tag = "Ok") =>
        LET B == Beyond(ret.op, ret.from, Wanted)
        IN IF B = {} THEN ~ret.some
           ELSE /\ ret.some
                /\ ret.rec = IF ret.op = "next_entry" THEN NthFirst(B, 1)
                             ELSE NthLast(B, 1)

\* With F=a, F=b and G=x accepted, next_entry from Head passed over the
\* records without G=x and returned the third.
C8_Witness ==
    /\ ret.op = "next_entry"
    /\ added = {Item("F", <<"a">>), Item("F", <<"b">>), Item("G", <<"x">>)}
    /\ ret.from = LocHead
    /\ ret.some
    /\ ret.rec = 3

\* No record lay beyond the position in the direction of the last call.
AtEnd == Beyond(ret.op, ret.from, MatchIdx(SubSeq(journal, 1, ret.len), matches)) = {}

\* C6 as stated: an end of the records is reported as Ok(None), and after an
\* Ok(None) every later call in the same direction returns Ok(None) until a
\* seek, no record being appended and no filter added meanwhile.
C6_Original ==
    IsRead =>
        /\ ret.tag = "Ok"
        /\ AtEnd => ~ret.some
        /\ ret.sinceNone => ~ret.some

\* C6 amended: an end of the records is reported as Ok(None), and after an
\* Ok(None) every later call in the same direction returns Ok(None) until a
\* seek or a call in the other direction moves the position, no record being
\* appended and no filter added meanwhile.
C6_EndIsNoneUntilMoved ==
    IsRead =>
        /\ ret.tag = "Ok"
        /\ AtEnd => ~ret.some
        /\ ret.runNone => ~ret.some

\* next_entry returned Ok(None) again past the last of three records.
C6_Witness ==
    /\ ret.op = "next_entry"
    /\ ret.runNone
    /\ ~ret.some
    /\ ret.from = At(3)

(***************************************************************************)
(* The claim about cursors, checked under SpecCursor.                      *)
(***************************************************************************)
\* C7: for an entry E the caller kept, seek(Cursor(E's __CURSOR)) succeeds and
\* the next_entry after it returns an entry with E's field map, the filters
\* being those E was read with.
C7_CursorReplay ==
    (saved.has /\ saved.ms = matches) =>
        /\ (replay = 1 => ret.tag = "Ok")
        /\ (replay = 2 => (ret.tag = "Ok" /\ ret.some /\ ret.entry = saved.entry))

(***************************************************************************)
(* The claim about waiting, checked under SpecWait.                        *)
(***************************************************************************)
\* wait_timeout was called at Tail, has returned, and nothing was appended or
\* invalidated since the wait before it.
QuietWaitDone ==
    /\ ret.op = "wait_timeout"
    /\ pc = "idle"
    /\ ret.from = LocTail
    /\ ret.quiet

\* C9 as stated: wait_timeout at Tail with nothing appended or invalidated
\* returns Ok(NOP), whatever the timeout.
C9_Original ==
    QuietWaitDone => (ret.tag = "Ok" /\ ret.wake = "NOP")

\* C9 amended: wait_timeout at Tail with a timeout below u64::MAX
\* microseconds and nothing appended or invalidated returns Ok(NOP), and it
\* returns: a wait that blocks with such a timeout ends.
C9_QuietWaitIsNop ==
    /\ [](QuietWaitDone /\ ~ExceedsU64(ret.dur) /\ Elapses(SubSeq(ret.dur, 1, 4))
            => (ret.tag = "Ok" /\ ret.wake = "NOP"))
    /\ ((pc = "blocked" /\ ret.op = "wait_timeout" /\ Elapses(ret.usec)) ~> pc = "idle")

\* wait_timeout(200 ms) at Tail returned NOP after it had blocked.
C9_Witness ==
    /\ QuietWaitDone
    /\ ret.dur = <<3392, 3, 0, 0, 0, 0, 0, 0>>
    /\ ret.wake = "NOP"
    /\ Len(journal) = 3

(***************************************************************************)
(* Claims about the blocking iterator, checked under SpecIter and, with    *)
(* failing primitives, under SpecEnds.                                     *)
(***************************************************************************)
\* C2: a blocking iterator made at Head yields the records that pass the
\* filters once each and in append order: what it has yielded is always the
\* first records that pass, none left out or repeated, and when it reports the
\* end it has yielded every one the journal held.  This covers records
\* appended between a next_entry that found nothing and the wait after it.
C2_IteratorYieldsEachMatchOnce ==
    (iter.on /\ iter.atHead) =>
        LET M == MatchIdx(journal, matches)
        IN /\ Len(yielded) <= Cardinality(M)
           /\ \A k \in 1..Len(yielded) : yielded[k] = NthFirst(M, k)
           /\ iter.done =>
                Len(yielded) = Cardinality(MatchIdx(SubSeq(journal, 1, polls.seen), matches))

\* A record appended between the next_entry that found nothing and the wait
\* was yielded after an earlier one.
C2_Witness ==
    /\ iter.on
    /\ iter.atHead
    /\ polls.raced # 0
    /\ Len(yielded) >= 2
    /\ yielded[Len(yielded)] = polls.raced

\* The loop over an iterator with a finite timeout is running.
Iterating == iter.on /\ ~iter.done /\ Elapses(iter.timeout)

\* C3 as stated: with a finite timeout, if from some point on no matching
\* record is appended and nothing is invalidated, the iteration ends.
C3_Original ==
    <>[](~polls.relevant) => [](Iterating => <>~Iterating)

\* C3 amended: with a finite timeout, if from some point on no record at all
\* is appended and nothing is invalidated, so that no event is left for a
\* wait, and from some point on no primitive fails, the iteration ends: a
\* poll returns the end of the sequence.
C3_IterationEnds ==
    (<>[](~evAppend /\ ~evInvalidate) /\ <>[][faults' = faults]_vars)
        => [](Iterating => <>~Iterating)

\* An iterator with a timeout of one second yielded two records and then
\* reported the end.
C3_Witness ==
    /\ iter.on
    /\ iter.done
    /\ iter.timeout = <<16960, 15, 0, 0>>
    /\ Len(yielded) = 2
    /\ ret.op = "iter_next"

(***************************************************************************)
(* Claims about the Writer, checked under SpecWrite.                       *)
(***************************************************************************)
\* The Entry has a field whose name is invalid.
HasInvalidName(entry) == \E k \in DOMAIN entry : ~field_name_valid(k)

\* C11: a submission with one invalid field name among valid fields fails as
\* a whole with a ValidationError, the append primitive is not called, and
\* the store holds no new record and none of that submission's fields.
C11_InvalidSubmissionLeavesNoTrace ==
    /\ [][(ret'.op = "submit" /\ HasInvalidName(ret'.entry)) =>
            /\ ret'.tag = "Err"
            /\ ret'.err = ValidationError
            /\ calls' = <<>>
            /\ journal' = journal]_vars
    /\ [](\A i \in 1..Len(journal) :
            /\ ~HasInvalidName(journal[i].src)
            /\ \A k \in 1..Len(journal[i].data) :
                   field_name_valid(splitn_name(journal[i].data[k])))

\* A submission with MESSAGE, the filter field and "bad field!" was refused
\* after another one had been stored.
C11_Witness ==
    /\ ret.op = "submit"
    /\ DOMAIN ret.entry = {<<"MESSAGE">>, <<FILTER_FIELD>>, <<"bad field!">>}
    /\ ret.tag = "Err"
    /\ Len(journal) = 1
    /\ journal[1].src # EmptyMap

\* The records the submissions of a run became.
SubmittedBy(run) ==
    {n \in 1..Len(journal) :
        /\ <<FILTER_FIELD>> \in DOMAIN journal[n].src
        /\ journal[n].src[<<FILTER_FIELD>>] = UniqueId(run)}

\* The last call read backward from Tail through the filter on the run's
\* value, and the run has submitted a record.
ReadBack(run) ==
    /\ ret.op = "previous_entry"
    /\ ret.from = LocTail
    /\ ~ret.faulted
    /\ matches = {Item(FILTER_FIELD, UniqueId(run))}
    /\ SubmittedBy(run) # {}

\* C12: for every text s, with or without '=', after an Entry with MESSAGE = s
\* and the filter field with the run's value was submitted, the most recent
\* record matching that filter is read back with get_message() equal to s: it
\* is the run's last submission, whatever the run and other runs submitted
\* before and whatever other runs submitted after it.
C12_MessageRoundTrip ==
    \A run \in Runs :
        ReadBack(run) =>
            /\ ret.tag = "Ok"
            /\ ret.some
            /\ ret.rec = Max(SubmittedBy(run))
            /\ get_message(ret.entry) =
                   [some |-> TRUE, val |-> journal[ret.rec].src[<<"MESSAGE">>]]

\* A run submitted two entries, the second with the message "m=2", another
\* run submitted one after them, and the first run's "m=2" was read back.
C12_Witness ==
    /\ Len(journal) = 3
    /\ ReadBack(1)
    /\ SubmittedBy(1) = {1, 2}
    /\ journal[2].src[<<"MESSAGE">>] = <<"m", EQ, "2">>
    /\ get_message(ret.entry).val = <<"m", EQ, "2">>

(***************************************************************************)
(* The claim about timeouts, checked under SpecTimeout.                    *)
(***************************************************************************)
\* The last call took a Duration.
TookDuration(r) == r.op \in {"wait_timeout", "set_timeout", "as_blocking_iter_timeout"}

\* C13: a timeout of at most 2^64-1 whole microseconds is converted to
\* exactly that count; a larger one fails with EOVERFLOW and is never
\* truncated, wait_timeout then calls no primitive and set_timeout leaves the
\* iterator's stored timeout as it was.
C13_TimeoutConversion ==
    [][(TookDuration(ret') /\ ret' # ret) =>
        IF ExceedsU64(ret'.dur)
        THEN /\ ret'.tag = "Err"
             /\ ret'.err = OsError(EOVERFLOW)
             /\ calls' = <<>>
             /\ pc' = pc
             /\ ret'.op = "set_timeout" => iter' = iter
             /\ ret'.op = "as_blocking_iter_timeout" => ~iter'.on
        ELSE /\ ret'.tag # "Err"
             /\ ret'.op = "wait_timeout" =>
                    /\ ret'.usec \o <<0, 0, 0, 0>> = ret'.dur
                    /\ calls' = <<"sd_journal_wait">>
             /\ ret'.op # "wait_timeout" =>
                    iter'.timeout \o <<0, 0, 0, 0>> = ret'.dur]_vars

\* set_timeout was refused a timeout of 2^64 microseconds on an iterator made
\* with a timeout of one second that has been polled.
C13_Witness ==
    /\ ret.op = "set_timeout"
    /\ ret.dur = <<0, 0, 0, 0, 1, 0, 0, 0>>
    /\ ret.err = OsError(EOVERFLOW)
    /\ iter.on
    /\ iter.started
    /\ iter.timeout = <<16960, 15, 0, 0>>

(***************************************************************************)
(* Claims about one poll of the blocking iterator, checked under SpecPoll. *)
(***************************************************************************)
\* The poll has returned the end of the sequence.
EndOfSequence(r) == r.op = "iter_next" /\ r.tag = "Ok" /\ ~r.some

\* The wait of the running poll returns in this step.
WaitReturned(w) == pc \in {"wait", "waiting"} /\ w # "-"

\* C14 as stated: a poll whose wait returned NOP after a finite timeout returns
\* the end of the sequence.
C14_Original ==
    (pc = "idle" /\ ret.op = "iter_next" /\ ret.wake = "NOP") => EndOfSequence(ret)

\* C14 amended: after a wait that returned NOP the poll calls next_entry once
\* more, without waiting again, and returns what that call returns: the end
\* of the sequence when the store holds no matching record beyond the
\* position, the first such record when one was appended after the wait had
\* returned, and no end of the sequence when a primitive of that call failed.
C14_NopEndsPollWithLastRead ==
    /\ [][(WaitReturned(ret'.wake) /\ ret'.wake = "NOP") => pc' = "next_entry"]_vars
    /\ [][(pc = "next_entry" /\ ret' # ret) =>
            LET B == Beyond("next_entry", loc, MatchIdx(journal, matches))
            IN /\ pc' = "idle"
               /\ ret'.op = "iter_next"
               /\ calls'[1] = "sd_journal_next"
               /\ "sd_journal_wait" \notin Range(calls')
               /\ ret'.faulted => ~EndOfSequence(ret')
               /\ (~ret'.faulted /\ B = {}) => EndOfSequence(ret')
               /\ (~ret'.faulted /\ B # {}) =>
                      /\ ret'.tag = "Ok"
                      /\ ret'.some
                      /\ ret'.rec = Min(B)
                      /\ yielded' = Append(yielded, Min(B))]_vars

\* A poll whose wait returned NOP has returned a record as an item.
C14_Witness ==
    /\ pc = "idle"
    /\ ret.op = "iter_next"
    /\ ret.wake = "NOP"
    /\ ret.tag = "Ok"
    /\ ret.some
    /\ ~ret.faulted

\* C15: when the wait of a poll returns INVALIDATE the poll goes on with
\* next_entry; the wakeup yields no item, no error and no end of the sequence.
C15_InvalidateRetries ==
    /\ [][(WaitReturned(ret'.wake) /\ ret'.wake = "INVALIDATE") =>
            /\ pc' = "next_wait"
            /\ ret'.tag = "Running"
            /\ yielded' = yielded
            /\ iter' = iter]_vars
    /\ [][(pc = "next_wait" /\ ret' # ret) => calls'[1] = "sd_journal_next"]_vars

\* The wait of a poll has returned INVALIDATE and the poll, still running,
\* is about to call next_entry again.
C15_Witness ==
    /\ pc = "next_wait"
    /\ iter.on
    /\ ret.wake = "INVALIDATE"
    /\ ret.tag = "Running"
    /\ calls = <<"sd_journal_wait">>

\* C18: the error of a failing primitive is the result of the call in which
\* it failed; in the blocking iterator it ends the poll at once, with no
\* further primitive call, and a poll only starts next_wait again after a
\* wakeup.
C18_ErrorsSurface ==
    /\ [][faults' # faults =>
            /\ pc' = "idle"
            /\ ret'.tag = "Err"
            /\ ret'.err.kind = "Os"
            /\ ret'.faulted]_vars
    /\ [][(pc' = "next_wait" /\ pc # "next_wait") =>
            /\ WaitReturned(ret'.wake)
            /\ ret'.wake \in {"APPEND", "INVALIDATE"}]_vars

(***************************************************************************)
(* Claims about seek: C16 under SpecSeek, C17 under Spec.                  *)
(***************************************************************************)
SeekPrimitives ==
    {"sd_journal_seek_head", "sd_journal_seek_tail", "sd_journal_seek_cursor"}

\* The records that passed the filters when the last call was made.
MatchedThen == MatchIdx(SubSeq(journal, 1, ret.len), matches)

\* The last call is the first read after a successful seek(sk), made in the
\* direction op.
FirstAfterSeek(sk, op) == ret.after # <<>> /\ ret.after[1] = sk /\ ret.op = op

\* C16: seek returns no Entry and calls no primitive but its seek primitive:
\* it only moves the position.  The first next_entry after seek(Head) returns
\* the first matching record and the first previous_entry after seek(Tail)
\* the last one (nothing when no record matches), whatever the position was
\* before the seek.
C16_SeekThenRead ==
    /\ [][(ret'.op = "seek" /\ ret' # ret) =>
            /\ ~ret'.some
            /\ ret'.entry = EmptyMap
            /\ Range(calls') \subseteq SeekPrimitives
            /\ Len(calls') = 1
            /\ journal' = journal
            /\ matches' = matches]_vars
    /\ [](FirstAfterSeek("Head", "next_entry") =>
            /\ ret.tag = "Ok"
            /\ ret.some <=> MatchedThen # {}
            /\ ret.some => ret.rec = Min(MatchedThen))
    /\ [](FirstAfterSeek("Tail", "previous_entry") =>
            /\ ret.tag = "Ok"
            /\ ret.some <=> MatchedThen # {}
            /\ ret.some => ret.rec = Max(MatchedThen))

\* The position was on the first record, the reader sought to Tail and
\* previous_entry returned the third, the last one.
C16_Witness ==
    /\ FirstAfterSeek("Tail", "previous_entry")
    /\ ret.after[2] = At(1)
    /\ ret.some
    /\ ret.rec = 3
    /\ get_message(ret.entry).val = <<"m3">>

\* C17: seek(Cursor(token)) with a NUL in the token fails with the
\* InvalidInput error of the string conversion, calls no primitive, and
\* leaves the position and the filters as they were.
C17_NulCursorRejected ==
    [][(ret'.op = "seek" /\ ret'.arg[1] = "Cursor" /\ Contains(ret'.arg, NUL)) =>
          /\ ret'.tag = "Err"
          /\ ret'.err = NulError
          /\ calls' = <<>>
          /\ faults' = faults
          /\ loc' = loc
          /\ matches' = matches]_vars

\* A seek to a token with a NUL was refused on a Reader that stands on the
\* second record and holds a filter.
C17_Witness ==
    /\ ret.op = "seek"
    /\ ret.arg = <<"Cursor", "i", NUL, "1">>
    /\ ret.tag = "Err"
    /\ calls = <<>>
    /\ loc = At(2)
    /\ matches = {Item("F", <<"a">>)}

(***************************************************************************)
(* The claim about the non-blocking iterator, checked under SpecNb.        *)
(***************************************************************************)
\* The loop over a non-blocking iterator is running.
NbIterating == iter.on /\ iter.nb /\ ~iter.done

\* The matching records beyond position l.
Ahead(l) == Beyond("next_entry", l, MatchIdx(journal, matches))

\* Each next() of the non-blocking iterator is one next_entry, never a wait,
\* whose result it returns: the first matching record beyond the position as
\* an item, or the end of the sequence when there is none, which ends the
\* iteration.  While no primitive has failed, an iterator made at Head has
\* yielded the first matching records in order, all of them once it ended.
\* Every item that is a record leaves fewer records ahead unless one is
\* appended.
NbNextIsOneRead ==
    /\ [][(NbIterating /\ ret' # ret /\ ret'.op = "iter_next") =>
            /\ pc' = "idle"
            /\ calls'[1] = "sd_journal_next"
            /\ "sd_journal_wait" \notin Range(calls')
            /\ iter'.done <=> EndOfSequence(ret')
            /\ ret'.faulted => ~EndOfSequence(ret')
            /\ (~ret'.faulted /\ Ahead(loc) = {}) => EndOfSequence(ret')
            /\ (~ret'.faulted /\ Ahead(loc) # {}) =>
                   /\ ret'.tag = "Ok"
                   /\ ret'.some
                   /\ ret'.rec = Min(Ahead(loc))
                   /\ yielded' = Append(yielded, ret'.rec)
                   /\ Cardinality(Ahead(loc')) < Cardinality(Ahead(loc))]_vars
    /\ []((iter.on /\ iter.nb /\ iter.atHead /\ faults = 0) =>
            LET M == MatchIdx(journal, matches)
            IN /\ Len(yielded) <= Cardinality(M)
               /\ \A k \in 1..Len(yielded) : yielded[k] = NthFirst(M, k)
               /\ iter.done =>
                    Len(yielded) =
                        Cardinality(MatchIdx(SubSeq(journal, 1, polls.seen), matches)))
    /\ [](iter.nb => pc = "idle")

\* C19 as stated: each next() is one next_entry, the first Ok(None) ends the
\* iteration, and the iteration ends after finitely many items.
C19_Original ==
    /\ NbNextIsOneRead
    /\ [](NbIterating => <>~NbIterating)

\* C19 amended: each next() is one next_entry, never a wait, the first
\* Ok(None) ends the iteration, and the iteration ends after finitely many
\* items if from some point on no primitive of next_entry fails; every
\* failing next_entry is one more item, an error.
C19_NonBlockingIterEnds ==
    /\ NbNextIsOneRead
    /\ <>[][faults' = faults]_vars => [](NbIterating => <>~NbIterating)
    /\ [][(NbIterating /\ faults' # faults /\ ret'.tag = "Err") =>
            (NbIterating' /\ ret'.op = "iter_next" /\ yielded' = yielded)]_vars

\* A non-blocking iterator made at Head ended after the two records that
\* pass the filter F=a among three.
C19_Witness ==
    /\ iter.on
    /\ iter.nb
    /\ iter.atHead
    /\ iter.done
    /\ EndOfSequence(ret)
    /\ matches = {Item("F", <<"a">>)}
    /\ Len(journal) = 3
    /\ faults = 0
    /\ yielded = <<1, 3>>

(***************************************************************************)
(* The claim about get_wallclock_time, checked under SpecClock.            *)
(***************************************************************************)
\* Field k of the entry is present and its text is a signed 64-bit integer.
Parsable(e, k) == k \in DOMAIN e /\ parse_i64(from_utf8_lossy(e[k])).ok

\* The timestamp that text holds.
Parsed(text) ==
    [some |-> TRUE, neg |-> parse_i64(text).neg, digits |-> parse_i64(text).digits]

\* C20: get_wallclock_time returns the timestamp parsed from
\* _SOURCE_REALTIME_TIMESTAMP when that field is present and is a signed
\* 64-bit integer, else the one parsed from __REALTIME_TIMESTAMP, and None
\* only when neither field holds such an integer.
C20_WallclockPrefersSource ==
    ret.op = "get_wallclock_time" =>
        LET e == ret.entry
            src == <<"_SOURCE_REALTIME_TIMESTAMP">>
            rcv == <<"__REALTIME_TIMESTAMP">>
        IN /\ Parsable(e, src) => ret.ts = Parsed(e[src])
           /\ (~Parsable(e, src) /\ Parsable(e, rcv)) => ret.ts = Parsed(e[rcv])
           /\ ~ret.ts.some <=> (~Parsable(e, src) /\ ~Parsable(e, rcv))

\* The source time " 12" is no integer and the reception time "007" was
\* returned as 7.
C20_Witness ==
    /\ ret.op = "get_wallclock_time"
    /\ <<"_SOURCE_REALTIME_TIMESTAMP">> \in DOMAIN ret.entry
    /\ ret.entry[<<"_SOURCE_REALTIME_TIMESTAMP">>] = <<" ", "1", "2">>
    /\ <<"__REALTIME_TIMESTAMP">> \in DOMAIN ret.entry
    /\ ret.entry[<<"__REALTIME_TIMESTAMP">>] = <<"0", "0", "7">>
    /\ ret.ts = [some |-> TRUE, neg |-> FALSE, digits |-> <<"7">>]

(***************************************************************************)
(* Claims about the decoding of a record, checked under SpecForeign.       *)
(***************************************************************************)
Dedicated == {<<"__REALTIME_TIMESTAMP">>, <<"__MONOTONIC_TIMESTAMP">>, <<"__CURSOR">>}

\* The data items the enumeration of the last read yielded: every call of
\* the enumeration primitive but the last one yielded an item.
Enumerated ==
    SubSeq(journal[ret.rec].data, 1,
           Cardinality({k \in DOMAIN calls : calls[k] = "sd_journal_enumerate_data"}) - 1)

\* C21: in every Entry next_entry or previous_entry returns, the fields
\* __REALTIME_TIMESTAMP, __MONOTONIC_TIMESTAMP and __CURSOR hold what the
\* timestamp primitives and the get-cursor primitive reported for the record,
\* whatever the enumeration yielded under these names.
C21_DedicatedFieldsWin ==
    (IsRead /\ ret.tag = "Ok" /\ ret.some) =>
        /\ Dedicated \subseteq DOMAIN ret.entry
        /\ ret.entry[<<"__REALTIME_TIMESTAMP">>] = to_string(RealtimeAt(ret.rec))
        /\ ret.entry[<<"__MONOTONIC_TIMESTAMP">>] = to_string(MonotonicAt(ret.rec))
        /\ ret.entry[<<"__CURSOR">>] = CursorOf(ret.rec)

\* A read returned a record whose enumeration yielded a dedicated name with a
\* value other than the one the Entry holds.
C21_Witness ==
    /\ IsRead /\ ret.tag = "Ok" /\ ret.some
    /\ \E k \in DOMAIN Enumerated :
        LET n == SubSeq(Enumerated[k], 1, IndexOf(Enumerated[k], EQ) - 1)
        IN /\ n \in Dedicated
           /\ SubSeq(Enumerated[k], IndexOf(Enumerated[k], EQ) + 1, Len(Enumerated[k]))
                  # ret.entry[n]

\* The data item as text: invalid bytes replaced.
Decoded(k) ==
    [x \in DOMAIN Enumerated[k] |->
        IF Enumerated[k][x] = "xFF" THEN "uFFFD" ELSE Enumerated[k][x]]

FirstEq(k) == Min({x \in DOMAIN Enumerated[k] : Enumerated[k][x] = EQ})

\* C22: every data item the enumeration yielded is split at its first '='
\* only: the text before it is a key of the returned Entry and, unless the
\* name is a dedicated one or a later item carries it again, the Entry holds
\* under it all the text after that '=', further '=' included.  (An item
\* that holds no '=' has no such split: the read panics on it and returns no
\* Entry.)
C22_SplitAtFirstEq ==
    (IsRead /\ ret.tag = "Ok" /\ ret.some) =>
        \A k \in DOMAIN Enumerated :
            LET name == SubSeq(Decoded(k), 1, FirstEq(k) - 1)
                value == SubSeq(Decoded(k), FirstEq(k) + 1, Len(Decoded(k)))
                again == \E k2 \in DOMAIN Enumerated :
                            /\ k2 > k
                            /\ SubSeq(Decoded(k2), 1, FirstEq(k2) - 1) = name
            IN /\ name \in DOMAIN ret.entry
               /\ (name \notin Dedicated /\ ~again) => ret.entry[name] = value

\* A read returned a record with an item whose value holds a further '='.
C22_Witness ==
    /\ IsRead /\ ret.tag = "Ok" /\ ret.some
    /\ \E k \in DOMAIN Enumerated :
        /\ Cardinality({x \in DOMAIN Enumerated[k] : Enumerated[k][x] = EQ}) > 1
        /\ ret.entry[SubSeq(Decoded(k), 1, FirstEq(k) - 1)]
               = SubSeq(Decoded(k), FirstEq(k) + 1, Len(Decoded(k)))
        /\ Contains(ret.entry[SubSeq(Decoded(k), 1, FirstEq(k) - 1)], EQ)

(***************************************************************************)
(* Claims about the flags of open, checked under SpecOpen.                 *)
(***************************************************************************)
\* Bit number b (0 the lowest) of n is set.
Bit(n, b) == (n \div (2 ^ b)) % 2 = 1

\* C23: the flags open hands to the open primitive hold the local-only bit
\* iff only_local, the runtime-only bit iff only_volatile, the system bit iff
\* files is System, the current-user bit iff files is CurrentUser and no other
\* bit; the last two are never both set, and no other configuration gives the
\* same flags.
C23_OpenFlags ==
    ret.op = "open" =>
        /\ Bit(ret.flags, 0) <=> (ret.arg[3] = "only_local")
        /\ Bit(ret.flags, 1) <=> (ret.arg[2] = "only_volatile")
        /\ Bit(ret.flags, 2) <=> (ret.arg[1] = "System")
        /\ Bit(ret.flags, 3) <=> (ret.arg[1] = "CurrentUser")
        /\ ret.flags >= 0 /\ ret.flags < 16
        /\ ~(Bit(ret.flags, 2) /\ Bit(ret.flags, 3))
        /\ \A c \in Configs : open_flags(c) = ret.flags => ConfigArg(c) = ret.arg

\* open succeeded for the current user's files, volatile and local only.
C23_Witness ==
    /\ ret.op = "open" /\ ret.tag = "Ok"
    /\ ret.arg = <<"CurrentUser", "only_volatile", "only_local">>
    /\ ret.flags = 11
    /\ calls = <<"sd_journal_open">>

(***************************************************************************)
(* Claims about the registered filters, checked under SpecFilters.         *)
(***************************************************************************)
\* C24: while a Reader lives the set of its registered filters never loses
\* an expression; an add_filter that returns Ok has its expression in the
\* set; every step that is not an add_filter (seek, next_entry,
\* previous_entry, the waits, the steps of both iterators) leaves the set as
\* it was.
C24_FiltersNeverShrink ==
    [][/\ (alive /\ alive') => matches \subseteq matches'
       /\ (ret' # ret /\ ret'.op = "add_filter" /\ ret'.tag = "Ok")
              => ret'.arg \in matches'
       /\ (alive /\ alive' /\ ~(ret' # ret /\ ret'.op = "add_filter"))
              => matches' = matches]_vars

\* With two filters registered, a read through the non-blocking iterator
\* returned an entry.
C24_Witness ==
    /\ alive
    /\ Cardinality(matches) = 2
    /\ iter.on /\ iter.nb
    /\ ret.op = "iter_next" /\ ret.tag = "Ok" /\ ret.some

(***************************************************************************)
(* Claims about ffi_result, checked under SpecStatus.                      *)
(***************************************************************************)
\* The advance primitive of the last read reported 0: it was the only
\* primitive called and it did not fail.
AdvanceReportedZero ==
    /\ IsRead
    /\ ~ret.faulted
    /\ calls \in {<<"sd_journal_next">>, <<"sd_journal_previous">>}

\* The wait primitive of the last wait reported 0: it blocked and returned
\* with no event.
WaitReportedZero ==
    /\ ret.op = "wait_timeout"
    /\ pc = "idle"
    /\ calls = <<"sd_journal_wait">>
    /\ ~ret.faulted
    /\ ret.quiet

\* C25: ffi_result turns every negative status r into the error with the
\* platform code -r (a positive number, one more than -(r + 1)) and hands
\* every other status back unchanged as Ok; a read whose advance primitive
\* reported 0 and a wait whose primitive reported 0 return Ok.
C25_StatusToResult ==
    /\ (ret.op = "ffi_result" /\ ret.status < 0) =>
           /\ ret.tag = "Err"
           /\ ret.err.kind = "Os"
           /\ ret.err.code > 0
           /\ ret.err.code - 1 = -(ret.status + 1)
    /\ (ret.op = "ffi_result" /\ ret.status >= 0) =>
           /\ ret.tag = "Ok"
           /\ ret.val = ret.status
    /\ AdvanceReportedZero => (ret.tag = "Ok" /\ ~ret.some)
    /\ WaitReportedZero => (ret.tag = "Ok" /\ ret.wake = "NOP")

(***************************************************************************)
(* Claims about open_systemd, checked under SpecLoad.                      *)
(***************************************************************************)
\* Thread c's last call of open_systemd has returned.
Returned(c) == callers[c].pc = "idle" /\ callers[c].res.tag # "None"

\* C26: once the load has failed the counter stays at failed (2) and no
\* further load is made; every call that finds the counter there returns the
\* error ENOSYS and has not run the load.
C26_FailureIsCached ==
    /\ [][SYSTEMD_API_LOADING = 2 =>
            (SYSTEMD_API_LOADING' = 2 /\ loads' = loads)]_vars
    /\ [](\A c \in Callers :
            (Returned(c) /\ callers[c].found = 2) =>
                /\ callers[c].res = [tag |-> "Err", err |-> OsError(ENOSYS)]
                /\ ~callers[c].loaded)

\* After a failed load by one thread another thread's call returned ENOSYS.
C26_Witness ==
    \E c, d \in Callers :
        /\ c # d
        /\ Returned(c) /\ callers[c].loaded /\ callers[c].res.err.kind = "Load"
        /\ Returned(d) /\ callers[d].found = 2 /\ callers[d].res.err = OsError(ENOSYS)
        /\ SYSTEMD_API_LOADING = 2
        /\ loads = 1

\* C27: the library load is made at most once, whatever the interleaving; a
\* call that finds the load in progress (counter 1) returns the error EAGAIN
\* in that very step, without a load and without touching the counter.
C27_OneLoader ==
    /\ [](loads <= 1)
    /\ [](Cardinality({c \in Callers : callers[c].pc \in {"load", "failed", "publish"}})
             <= 1)
    /\ [][\A c \in Callers :
            (SYSTEMD_API_LOADING = 1 /\ callers[c].pc = "idle" /\ callers'[c] # callers[c])
                => /\ callers'[c].pc = "idle"
                   /\ callers'[c].res = [tag |-> "Err", err |-> OsError(EAGAIN)]
                   /\ ~callers'[c].loaded
                   /\ SYSTEMD_API_LOADING' = 1
                   /\ loads' = loads]_vars

\* While one thread is in the load another one has returned EAGAIN.
C27_Witness ==
    \E c, d \in Callers :
        /\ callers[c].pc = "load"
        /\ Returned(d) /\ callers[d].found = 1 /\ callers[d].res.err = OsError(EAGAIN)
        /\ SYSTEMD_API_LOADING = 1

\* C28: whenever the counter reads ready (4) SYSTEMD_API is set, and no call
\* ends in the panic of unwrapping an empty handle; the counter changes only
\* from 0 to 1, from 1 to 2 and from 1 to 4.
C28_ReadyMeansSet ==
    /\ [](SYSTEMD_API_LOADING = 4 => SYSTEMD_API = "Some")
    /\ [](\A c \in Callers : callers[c].res.tag # "Panic")
    /\ [][SYSTEMD_API_LOADING' # SYSTEMD_API_LOADING =>
            <<SYSTEMD_API_LOADING, SYSTEMD_API_LOADING'>> \in {<<0, 1>>, <<1, 2>>, <<1, 4>>}]_vars

\* A thread that found the counter at ready got the handle.
C28_Witness ==
    \E c \in Callers :
        /\ Returned(c)
        /\ callers[c].found = 4
        /\ callers[c].res.tag = "Ok"
        /\ SYSTEMD_API_LOADING = 4
        /\ SYSTEMD_API = "Some"

(***************************************************************************)
(* The claim about the buffer of seek, checked under SpecCursor.           *)
(***************************************************************************)
\* C29: when seek(Cursor(token)) with a token free of NUL calls the seek
\* primitive, the text the primitive reads at the pointer it is handed is the
\* caller's token.
C29_SeekReadsToken ==
    (/\ ret.op = "seek"
     /\ ret.arg # <<>>
     /\ ret.arg[1] = "Cursor"
     /\ ~Contains(Tail(ret.arg), NUL)
     /\ calls = <<"sd_journal_seek_cursor">>)
        => ret.read = Tail(ret.arg)

=============================================================================
